---- MODULE Spec2Model ----
(***************************************************************************)
(* Verification model of the Monte Carlo tail-risk engine                  *)
(* (src/Tail End Risk): statistics, path simulation over the volatility    *)
(* stress ladder, percentile / VaR / CVaR extraction, the risk-state       *)
(* score, the engine constructor and the target-price query of the driver. *)
(*                                                                         *)
(* Numbers.  The program computes in binary floating point.  The model     *)
(* computes in decimal fixed point: a real x is the integer floor(x * SC)  *)
(* with SC = 10000, and every product, quotient and square root floors.    *)
(* Rounding of the last digit therefore differs from the program's; all    *)
(* comparisons, clamps, orderings, control flow and NaN propagation are    *)
(* those of the code.  NaN is the value numpy/pandas produce for 0/0, for  *)
(* the standard deviation of fewer than two observations and for a rolling *)
(* window that is not full; every arithmetic operator propagates it and    *)
(* every comparison with it is false, as in IEEE-754.                      *)
(*                                                                         *)
(* Random numbers.  numpy's global generator is a deterministic function   *)
(* of its state.  It is modelled as a congruential generator whose         *)
(* multiplier (genA) is fixed per behaviour and ranges over several        *)
(* values, so that the properties are checked for several bit streams.     *)
(***************************************************************************)
EXTENDS Integers, Sequences, FiniteSets, TLC

VARIABLES
    rng,        \* state of numpy's process-wide generator
    genA,       \* the generator's stream (fixed for a behaviour)
    extDraws,   \* random draws made by the rest of the process so far
    runs,       \* the last two run_monte_carlo invocations, with their results
    engine,     \* the fields of the MonteCarloRiskEngine object
    pc,         \* the stage the constructor / analysis has reached
    rank_queries, \* the last two target-price queries of the driver
    stock_data, \* the Close column of the price history (what yfinance returns)
    call,       \* the last call of the function under study, with its result
    effects,    \* what the constructor has done so far, in order
    RESULTS,    \* the screener's module-level list of successful results
    output_file, \* the rows of the screener's Excel file (none until written)
    screener    \* where the screener's main thread is, and what it holds

mcVars == <<rng, genA, extDraws, runs>>

pctVars == <<engine, pc, rank_queries>>

fnVars == <<stock_data, call, effects>>

scrVars == <<RESULTS, output_file, screener>>

vars == <<mcVars, pctVars, fnVars, scrVars>>

-----------------------------------------------------------------------------
(* Fixed-point arithmetic *)

SC == 10000

NaN == -2000000000

IsNaN(x) == x = NaN

(* floor(a * b / SC), computed without leaving 32 bits (|b| < 200000). *)
MulFix(a, b) ==
    IF IsNaN(a) \/ IsNaN(b) THEN NaN
    ELSE (a \div SC) * b + ((a % SC) * b) \div SC

(* floor(a * SC / b) for b > 0, by long division; x / 0 is NaN for 0 / 0. *)
DivFix(a, b) ==
    IF IsNaN(a) \/ IsNaN(b) \/ b <= 0 THEN NaN
    ELSE LET q == a \div b
             r == a % b
         IN  q * SC + ((r * 100) \div b) * 100 + (((r * 100) % b) * 100) \div b

Add(a, b) == IF IsNaN(a) \/ IsNaN(b) THEN NaN ELSE a + b

Sub(a, b) == IF IsNaN(a) \/ IsNaN(b) THEN NaN ELSE a - b

(* IEEE comparisons: false as soon as one side is NaN. *)
Lt(a, b) == ~IsNaN(a) /\ ~IsNaN(b) /\ a < b

Le(a, b) == ~IsNaN(a) /\ ~IsNaN(b) /\ a <= b

Abs(a) == IF IsNaN(a) THEN NaN ELSE IF a < 0 THEN -a ELSE a

RECURSIVE ISqrtBetween(_, _, _)
ISqrtBetween(n, lo, hi) ==
    IF lo >= hi THEN lo
    ELSE LET mid == (lo + hi + 1) \div 2
         IN  IF mid * mid <= n THEN ISqrtBetween(n, mid, hi)
             ELSE ISqrtBetween(n, lo, mid - 1)

(* floor(sqrt(n)) for 0 <= n < 2^31. *)
ISqrt(n) == ISqrtBetween(n, 0, IF n < 46340 THEN n ELSE 46340)

(* np.sqrt of a fixed-point value (x < 20): NaN for NaN and for x < 0. *)
FSqrt(x) == IF IsNaN(x) \/ x < 0 THEN NaN ELSE ISqrt(x * SC)

Sq(x) == MulFix(x, x)

(* F(a) and F(a, b) with the arguments evaluated once, before F is applied *)
(* (the value is that of F(a); only the order of evaluation is fixed).     *)
Strict1(F(_), a) == CHOOSE r \in {F(x) : x \in {a}} : TRUE

Strict2(F(_, _), a, b) == CHOOSE r \in {F(x, y) : x \in {a}, y \in {b}} : TRUE

RECURSIVE SumRange(_, _, _)
(* s[lo] + ... + s[hi], summed by halves. *)
SumRange(s, lo, hi) ==
    IF lo > hi THEN 0
    ELSE IF lo = hi THEN s[lo]
    ELSE Add(SumRange(s, lo, (lo + hi) \div 2),
             SumRange(s, (lo + hi) \div 2 + 1, hi))

SumSeq(s) == SumRange(s, 1, Len(s))

-----------------------------------------------------------------------------
(* numpy's process-wide random generator *)

RngMod == 64

RngInc == 7

GenStreams == {13, 29}

SEED == 42

RngNext(s) == (genA * s + RngInc) % RngMod

(* np.random.seed(n) *)
SeedState(n) == n % RngMod

RECURSIVE RngStates(_, _)
(* The k generator states following s, in drawing order. *)
RngStates(s, k) ==
    IF k <= 0 THEN <<>> ELSE <<RngNext(s)>> \o RngStates(RngNext(s), k - 1)

RngAfter(s, k) == IF k <= 0 THEN s ELSE RngStates(s, k)[k]

(* Values a Student-t(5) draw takes: one per eighth of the generator's range. *)
TTable == <<-25820, -12910, -6455, 0, 0, 6455, 12910, 25820>>

(* One np.random.standard_t(df) value, read off generator state s. *)
StudentT(df, s) == TTable[(s * Len(TTable)) \div RngMod + 1]

(* One np.random.rand() value in [0, 1), read off generator state s. *)
Uniform(s) == (s * SC) \div RngMod

(* np.random.standard_t(df, size=(days, n)), drawn from state s0 row by row. *)
StandardT(df, s0, days, n) ==
    Strict1(LAMBDA st :
                [t \in 1..days |-> [p \in 1..n |-> StudentT(df, st[(t - 1) * n + p])]],
            RngStates(s0, days * n))

(* np.random.rand(days, n), drawn from state s0 row by row. *)
Rand(s0, days, n) ==
    Strict1(LAMBDA st :
                [t \in 1..days |-> [p \in 1..n |-> Uniform(st[(t - 1) * n + p])]],
            RngStates(s0, days * n))

-----------------------------------------------------------------------------
(* mc_simulation.py: run_single_simulation *)

TradingDays == 252

(* np.sqrt(252) = 15.8745 *)
Sqrt252 == 158745

(* Step 1: the shocks, rescaled to unit variance: z / np.sqrt(df / (df - 2)). *)
SimShocks(df, s0, days, n) ==
    Strict2(LAMBDA raw, scale :
                [t \in 1..days |-> [p \in 1..n |-> DivFix(raw[t][p], scale)]],
            StandardT(df, s0, days, n),
            FSqrt(DivFix(df * SC, (df - 2) * SC)))

(* An EWMA update in which yesterday's variance does not decay. *)
EwmaStepUndecayed(prev, zprev, lambda_) ==
    FSqrt(Add(Sq(prev), MulFix(SC - lambda_, Sq(MulFix(prev, zprev)))))

(* An EWMA update that adds the squared shock instead of scaling by it. *)
EwmaStepAdditive(prev, zprev, lambda_) ==
    FSqrt(Add(MulFix(lambda_, Sq(prev)), MulFix(SC - lambda_, Sq(zprev))))

(* One EWMA update: sqrt(lambda * s^2 + (1 - lambda) * (s * z)^2). *)
EwmaStep(prev, zprev, lambda_) ==
    FSqrt(Add(MulFix(lambda_, Sq(prev)),
              MulFix(SC - lambda_, Sq(MulFix(prev, zprev)))))

RECURSIVE SigmaRows(_, _, _, _, _)
(* Rows 1..t of sigma_t: row 1 is sigma, row t follows from row t - 1. *)
SigmaRows(t, sigma, z, n, lambda_) ==
    IF t = 1 THEN <<[p \in 1..n |-> sigma]>>
    ELSE Strict1(LAMBDA rows :
                     Append(rows, [p \in 1..n |->
                                      EwmaStep(rows[t - 1][p], z[t - 1][p], lambda_)]),
                 SigmaRows(t - 1, sigma, z, n, lambda_))

(* A volatility matrix in which every path follows the shocks of path 1. *)
SimSigmaShared(sigma, z, days, n, lambda_) ==
    IF days < 1 THEN <<>>
    ELSE SigmaRows(days, sigma, [t \in 1..days |-> [p \in 1..n |-> z[t][1]]], n, lambda_)

(* Step 2: the volatility matrix. *)
SimSigma(sigma, z, days, n, lambda_) ==
    IF days < 1 THEN <<>> ELSE SigmaRows(days, sigma, z, n, lambda_)

(* A jump matrix on which no jump ever fires. *)
SimJumpsNever(jump_prob, s1, days, n) == [t \in 1..days |-> [p \in 1..n |-> FALSE]]

(* Step 4: the jump indicators; drawn only when jump_prob > 0. *)
SimJumps(jump_prob, s1, days, n) ==
    IF jump_prob > 0
    THEN Strict1(LAMBDA u : [t \in 1..days |-> [p \in 1..n |-> u[t][p] < jump_prob]],
                 Rand(s1, days, n))
    ELSE [t \in 1..days |-> [p \in 1..n |-> FALSE]]

(* Daily returns whose jump has the size of the day's shock, not a constant. *)
SimDailyReturnsRandomJump(mu, sigma_t, z, jumps, jump_magnitude, days, n) ==
    [t \in 1..days |-> [p \in 1..n |->
        Add(Add(mu \div TradingDays,
                MulFix(DivFix(sigma_t[t][p], Sqrt252), z[t][p])),
            IF jumps[t][p] THEN MulFix(jump_magnitude, Abs(z[t][p])) ELSE 0)]]

(* Steps 3 and 4: mu / 252 + sigma_t / sqrt(252) * z, plus the jump. *)
SimDailyReturns(mu, sigma_t, z, jumps, jump_magnitude, days, n) ==
    [t \in 1..days |-> [p \in 1..n |->
        Add(Add(mu \div TradingDays,
                MulFix(DivFix(sigma_t[t][p], Sqrt252), z[t][p])),
            IF jumps[t][p] THEN jump_magnitude ELSE 0)]]

RECURSIVE CumProdRows(_, _, _)
(* Rows 1..t of np.cumprod(1 + daily_returns, axis=0). *)
CumProdRows(t, r, n) ==
    IF t = 1 THEN <<[p \in 1..n |-> Add(SC, r[1][p])]>>
    ELSE Strict1(LAMBDA rows :
                     Append(rows, [p \in 1..n |->
                                      MulFix(rows[t - 1][p], Add(SC, r[t][p]))]),
                 CumProdRows(t - 1, r, n))

(* Paths that apply each day's return to the starting price, not to the    *)
(* price of the day before.                                                 *)
SimPathsUncompounded(stock_price, r, days, n) ==
    [t \in 1..days |-> [p \in 1..n |-> MulFix(stock_price, Add(SC, r[t][p]))]]

(* Step 5: paths = stock_price * cumprod. *)
SimPaths(stock_price, r, days, n) ==
    IF days < 1 THEN <<>>
    ELSE Strict1(LAMBDA cp :
                     [t \in 1..days |-> [p \in 1..n |-> MulFix(stock_price, cp[t][p])]],
                 CumProdRows(days, r, n))

(* The return left as a fraction of the starting price. *)
FinalReturnFraction(final_price, stock_price) ==
    LET ratio == DivFix(final_price, stock_price)
    IN  IF IsNaN(ratio) THEN NaN ELSE ratio - SC

(* final_returns = (final_prices / stock_price - 1) * 100 *)
FinalReturn(final_price, stock_price) ==
    LET ratio == DivFix(final_price, stock_price)
    IN  IF IsNaN(ratio) THEN NaN ELSE (ratio - SC) * 100

NoEnsemble(err, s) ==
    [rng |-> s, error |-> err, paths |-> <<>>, final_prices |-> <<>>,
     final_returns |-> <<>>]

(* The whole function, entered with the generator in state s0.  The result *)
(* carries the generator state it leaves behind.  With days_to_simulate =  *)
(* 0 the assignment sigma_t[0] = sigma raises IndexError.                  *)
RunSingleSimulation(stock_price, mu, sigma, days, n, jump_prob, jump_magnitude, df, lambda_, s0) ==
    LET s1 == RngAfter(s0, days * n)
        s2 == IF jump_prob > 0 THEN RngAfter(s1, days * n) ELSE s1
        Outputs(paths) ==
            [rng           |-> s2,
             error         |-> "",
             paths         |-> paths,
             final_prices  |-> paths[days],
             final_returns |-> [p \in 1..n |-> FinalReturn(paths[days][p], stock_price)]]
        Prices(r) == Strict1(Outputs, SimPaths(stock_price, r, days, n))
        Returns(z, sigma_t, jumps) ==
            Strict1(Prices,
                    SimDailyReturns(mu, sigma_t, z, jumps, jump_magnitude, days, n))
        Volatility(z) ==
            Strict2(LAMBDA sigma_t, jumps : Returns(z, sigma_t, jumps),
                    SimSigma(sigma, z, days, n, lambda_),
                    SimJumps(jump_prob, s1, days, n))
    IN  IF days < 1 THEN NoEnsemble("IndexError", s1)
        ELSE Strict1(Volatility, SimShocks(df, s0, days, n))

(* The local variables of run_single_simulation at its return statement,    *)
(* for days_to_simulate >= 1 and the generator entered in state s0.         *)
SimLocals(stock_price, mu, sigma, days, n, jump_prob, jump_magnitude, df, lambda_, s0) ==
    LET s1 == RngAfter(s0, days * n)
        WithPaths(z, sigma_t, jump_matrix, daily_returns) ==
            Strict1(LAMBDA paths :
                        [z             |-> z,
                         sigma_t       |-> sigma_t,
                         paths         |-> paths,
                         jump_matrix   |-> jump_matrix,
                         daily_returns |-> daily_returns],
                    SimPaths(stock_price, daily_returns, days, n))
        WithReturns(z, sigma_t, jump_matrix) ==
            Strict1(LAMBDA daily_returns : WithPaths(z, sigma_t, jump_matrix, daily_returns),
                    SimDailyReturns(mu, sigma_t, z, jump_matrix, jump_magnitude, days, n))
        WithSigma(z) ==
            Strict2(LAMBDA sigma_t, jump_matrix : WithReturns(z, sigma_t, jump_matrix),
                    SimSigma(sigma, z, days, n, lambda_),
                    SimJumps(jump_prob, s1, days, n))
    IN  Strict1(WithSigma, SimShocks(df, s0, days, n))

(* Steps 2 to 5 of run_single_simulation for days_to_simulate >= 1, from    *)
(* the rescaled shocks z and the jump indicators the draws produced.        *)
SimFromShocks(stock_price, mu, sigma, days, n, z, jump_matrix, jump_magnitude, lambda_) ==
    LET WithPaths(sigma_t, daily_returns) ==
            Strict1(LAMBDA paths :
                        [sigma_t       |-> sigma_t,
                         paths         |-> paths,
                         final_returns |-> [p \in 1..n |->
                                               FinalReturn(paths[days][p], stock_price)],
                         daily_returns |-> daily_returns],
                    SimPaths(stock_price, daily_returns, days, n))
        WithSigma(sigma_t) ==
            Strict1(LAMBDA daily_returns : WithPaths(sigma_t, daily_returns),
                    SimDailyReturns(mu, sigma_t, z, jump_matrix, jump_magnitude, days, n))
    IN  Strict1(WithSigma, SimSigma(sigma, z, days, n, lambda_))

-----------------------------------------------------------------------------
(* mc_simulation.py: run_monte_carlo *)

(* vol_multipliers = [1.0, 1.25, 1.5] *)
VolMultipliers == <<10000, 12500, 15000>>

(* base_case = results[1.0] *)
BaseMultiplier == 10000

JUMP_PROB == 200

JUMP_MAGNITUDE == -400

DF == 5

EWMA_LAMBDA == 9400

(* The call with the multiplier left out of sigma. *)
ScenarioCallUnscaled(stock_price, stats, days, n, i) ==
    [n              |-> n,
     df             |-> DF,
     days           |-> days,
     lambda_        |-> EWMA_LAMBDA,
     sigma          |-> stats.stock_volatility,
     jump_prob      |-> JUMP_PROB,
     mu             |-> stats.stock_expected_return,
     jump_magnitude |-> JUMP_MAGNITUDE,
     stock_price    |-> stock_price]

(* The arguments of the i-th call of run_single_simulation. *)
ScenarioCall(stock_price, stats, days, n, i) ==
    [n              |-> n,
     df             |-> DF,
     days           |-> days,
     lambda_        |-> EWMA_LAMBDA,
     sigma          |-> MulFix(stats.stock_volatility, VolMultipliers[i]),
     jump_prob      |-> JUMP_PROB,
     mu             |-> stats.stock_expected_return,
     jump_magnitude |-> JUMP_MAGNITUDE,
     stock_price    |-> stock_price]

CallSimulation(c, s) ==
    RunSingleSimulation(c.stock_price, c.mu, c.sigma, c.days, c.n, c.jump_prob,
                        c.jump_magnitude, c.df, c.lambda_, s)

RECURSIVE StressLoop(_, _, _, _, _, _)
(* The loop over the multipliers from the i-th on, entered with generator   *)
(* state s: for every iteration started, the arguments of its call, the     *)
(* generator state the call was made in and what the call produced (a call  *)
(* that raises is the last one: the exception leaves the loop).             *)
StressLoop(stock_price, stats, days, n, i, s) ==
    IF i > Len(VolMultipliers) THEN <<>>
    ELSE Strict2(LAMBDA c, e :
                     <<[args |-> c, entry |-> s, out |-> e]>> \o
                     (IF e.error # "" THEN <<>>
                      ELSE StressLoop(stock_price, stats, days, n, i + 1, e.rng)),
                 ScenarioCall(stock_price, stats, days, n, i),
                 CallSimulation(ScenarioCall(stock_price, stats, days, n, i), s))

(* run_monte_carlo without its np.random.seed call. *)
SeedOnEntryUnseeded(s) == s

(* The generator state the function starts its draws from: np.random.seed(42). *)
SeedOnEntry(s) == SeedState(SEED)

Ensemble(e) ==
    [stock_paths         |-> e.paths,
     stock_final_prices  |-> e.final_prices,
     stock_final_returns |-> e.final_returns]

(* results[multiplier] = {...} for every scenario the loop completed. *)
StressResults(done) ==
    [m \in {VolMultipliers[i] : i \in 1..Len(done)} |->
        Ensemble(done[CHOOSE i \in 1..Len(done) : VolMultipliers[i] = m].out)]

CallLog(done) == [i \in 1..Len(done) |-> [args |-> done[i].args, entry |-> done[i].entry]]

(* A dictionary whose top-level ensemble is the most stressed scenario. *)
MonteCarloResultStressed(results, calls, s) ==
    [rng                 |-> s,
     error               |-> "",
     stock_paths         |-> results[VolMultipliers[Len(VolMultipliers)]].stock_paths,
     stock_final_prices  |-> results[VolMultipliers[Len(VolMultipliers)]].stock_final_prices,
     stock_final_returns |-> results[VolMultipliers[Len(VolMultipliers)]].stock_final_returns,
     calls               |-> calls,
     stress_results      |-> results]

(* The dictionary returned: the base case and all scenarios. *)
MonteCarloResult(results, calls, s) ==
    [rng                 |-> s,
     error               |-> "",
     stock_paths         |-> results[BaseMultiplier].stock_paths,
     stock_final_prices  |-> results[BaseMultiplier].stock_final_prices,
     stock_final_returns |-> results[BaseMultiplier].stock_final_returns,
     calls               |-> calls,
     stress_results      |-> results]

MonteCarloError(err, calls, s) ==
    [rng |-> s, error |-> err, stock_paths |-> <<>>, stock_final_prices |-> <<>>,
     stock_final_returns |-> <<>>, calls |-> calls, stress_results |-> <<>>]

(* The whole function, entered with the generator in state s.  The result  *)
(* also records every run_single_simulation call made and the generator    *)
(* state left behind.                                                      *)
RunMonteCarlo(stock_price, stats, days, n, s) ==
    Strict1(LAMBDA done :
                LET last == done[Len(done)].out
                IN  IF last.error # ""
                    THEN MonteCarloError(last.error, CallLog(done), last.rng)
                    ELSE Strict1(LAMBDA results :
                                     MonteCarloResult(results, CallLog(done), last.rng),
                                 StressResults(done)),
            StressLoop(stock_price, stats, days, n, 1, SeedOnEntry(s)))

-----------------------------------------------------------------------------
(* mc_percentiles.py *)

HasNaN(s) == \E i \in 1..Len(s) : IsNaN(s[i])

(* An interpolation that runs from b down to a as the fraction grows. *)
LerpFromAbove(a, b, f) == b - ((b - a) * f) \div 100

(* numpy's interpolation between neighbours a <= b at fraction f / 100. *)
Lerp(a, b, f) ==
    IF f >= 50 THEN b - ((b - a) * (100 - f)) \div 100
    ELSE a + ((b - a) * f) \div 100

(* The sample read in the order given. *)
Unordered(a) == a

(* The order np.percentile reads the sample in: sorted ascending. *)
Ordered(a) == SortSeq(a, LAMBDA x, y : x < y)

(* np.percentile(a, q), linear interpolation, for a non-empty sample: the   *)
(* value at position (n - 1) * q / 100 of the sorted sample; NaN as soon as *)
(* the sample holds a NaN.                                                  *)
Percentile(a, q) ==
    IF HasNaN(a) THEN NaN
    ELSE Strict1(LAMBDA sorted :
                     LET pos == (Len(a) - 1) * q
                         lo  == pos \div 100 + 1
                         hi  == IF lo < Len(a) THEN lo + 1 ELSE lo
                     IN  Lerp(sorted[lo], sorted[hi], pos % 100),
                 Ordered(a))

(* percentiles = [1, 5, 10, 25, 50, 75, 90, 95, 99] *)
PERCENTILES == <<1, 5, 10, 25, 50, 75, 90, 95, 99>>

(* prices=None *)
None == <<>>

(* calculate_percentiles(stock_final_returns, stock_final_prices): one row  *)
(* per percentile, with a price column when prices are given.               *)
CalculatePercentiles(returns, prices) ==
    [k \in 1..Len(PERCENTILES) |->
        IF prices = None
        THEN [percentile |-> PERCENTILES[k],
              return     |-> Percentile(returns, PERCENTILES[k])]
        ELSE [percentile |-> PERCENTILES[k],
              return     |-> Percentile(returns, PERCENTILES[k]),
              price      |-> Percentile(prices, PERCENTILES[k])]]

(* The returns at or above the threshold. *)
AtOrAbove(returns, threshold) ==
    SelectSeq(returns, LAMBDA x : Le(threshold, x))

(* returns[returns <= threshold] *)
AtOrBelow(returns, threshold) ==
    SelectSeq(returns, LAMBDA x : Le(x, threshold))

(* .mean(): NaN for an empty selection. *)
Mean(s) ==
    IF s = <<>> \/ HasNaN(s) THEN NaN ELSE SumSeq(s) \div Len(s)

(* calculate_cvar with the 99% tail averaged below the 95% threshold. *)
CalculateCvarOneTail(returns) ==
    Strict2(LAMBDA v95, v99 :
                [var_95  |-> v95,
                 cvar_95 |-> Mean(AtOrBelow(returns, v95)),
                 var_99  |-> v99,
                 cvar_99 |-> Mean(AtOrBelow(returns, v95))],
            Percentile(returns, 5),
            Percentile(returns, 1))

(* calculate_cvar(returns) *)
CalculateCvar(returns) ==
    Strict2(LAMBDA v95, v99 :
                [var_95  |-> v95,
                 cvar_95 |-> Mean(AtOrBelow(returns, v95)),
                 var_99  |-> v99,
                 cvar_99 |-> Mean(AtOrBelow(returns, v99))],
            Percentile(returns, 5),
            Percentile(returns, 1))

-----------------------------------------------------------------------------
(* run_analysis.py: the target-price query *)

(* The number of prices strictly below the target. *)
CountBelow(prices, target) == Len(SelectSeq(prices, LAMBDA x : Lt(x, target)))

(* (stock_final_prices <= target).sum() *)
CountAtOrBelow(prices, target) == Len(SelectSeq(prices, LAMBDA x : Le(x, target)))

(* percentile_rank = (stock_final_prices <= TARGET).sum() / len(...) * 100 *)
PercentileRank(prices, target) ==
    LET share == DivFix(CountAtOrBelow(prices, target), Len(prices))
    IN  IF IsNaN(share) THEN NaN ELSE share * 100

-----------------------------------------------------------------------------
(* mc_stats.py, and the pandas operations it and mc_risk_state.py use *)

(* series.iloc[-w:] for w >= 0: the last w entries, and the whole series    *)
(* when w = 0 (-0 is 0) or when w is at least its length.                   *)
ILocLast(series, w) ==
    IF w = 0 \/ w >= Len(series) THEN series
    ELSE SubSeq(series, Len(series) - w + 1, Len(series))

(* series.pct_change().dropna(): the day-over-day relative changes. *)
PctChange(series) ==
    SelectSeq([i \in 1..(Len(series) - 1) |->
                  Sub(DivFix(series[i + 1], series[i]), SC)],
              LAMBDA x : ~IsNaN(x))

(* series.std(): the sample standard deviation (ddof = 1); NaN for fewer    *)
(* than two observations.                                                   *)
Std(x) ==
    IF Len(x) < 2 THEN NaN
    ELSE Strict1(LAMBDA m :
                     ISqrt(SumSeq([i \in 1..Len(x) |-> (x[i] - m) * (x[i] - m)])
                               \div (Len(x) - 1)),
                 SumSeq(x) \div Len(x))

(* risk_free_rate=0.042 in the constructor's call *)
RISK_FREE_RATE == 420

(* calculate_statistics(stock_data, historical_window, symbol, rate) *)
CalculateStatistics(close, historical_window, risk_free_rate) ==
    [stock_volatility      |->
         MulFix(Std(PctChange(ILocLast(close, historical_window))), Sqrt252),
     stock_expected_return |-> risk_free_rate]

-----------------------------------------------------------------------------
(* mc_data.py *)

(* A download that hands on whatever it got, rows or none. *)
DownloadDataUnchecked(market) == [stock_data |-> market, error |-> ""]

(* download_data: raises ValueError when yfinance returns no rows. *)
DownloadData(market) ==
    IF Len(market) = 0 THEN [stock_data |-> <<>>, error |-> "ValueError"]
    ELSE [stock_data |-> market, error |-> ""]

(* custom_stock_price=None *)
NoCustomPrice == -1

(* set_starting_prices: the custom price when one is given, else the last   *)
(* close.                                                                   *)
SetStartingPrices(close, custom_stock_price) ==
    IF custom_stock_price # NoCustomPrice THEN custom_stock_price
    ELSE close[Len(close)]

-----------------------------------------------------------------------------
(* mc_risk_state.py *)

(* Python's max(a, b) and min(a, b): the first argument unless the second   *)
(* compares greater (smaller); a NaN first argument is returned as it is.   *)
PyMax(a, b) == IF Lt(a, b) THEN b ELSE a

PyMin(a, b) == IF Lt(b, a) THEN b ELSE a

(* min(max(x, 0), 1) *)
Clamp01(x) == PyMin(PyMax(x, 0), SC)

(* returns.rolling(20) *)
ROLL_SHORT == 20

(* returns.rolling(100) *)
ROLL_LONG == 100

(* returns.rolling(window).std().iloc[-1] * np.sqrt(252) for a non-empty    *)
(* series: NaN while the series is shorter than the window.                 *)
RollingVol(returns, window) ==
    IF Len(returns) < window THEN NaN
    ELSE MulFix(Std(ILocLast(returns, window)), Sqrt252)

(* The ratio without its guard against a zero denominator. *)
RatioUnguarded(a, b) == DivFix(a, b)

(* a / b if b != 0 else 1.0, for b >= 0 (NaN != 0 is true) *)
RatioOrOne(a, b) == IF b # 0 THEN DivFix(a, b) ELSE SC

(* jump_threshold = -0.03 *)
JUMP_THRESHOLD == -300

(* jump_days / len(returns) *)
JumpFreq(returns) ==
    DivFix(Len(SelectSeq(returns, LAMBDA x : Lt(x, JUMP_THRESHOLD))), Len(returns))

(* np.mean([a, b, c, d]) *)
Mean4(a, b, c, d) ==
    IF IsNaN(a) \/ IsNaN(b) \/ IsNaN(c) \/ IsNaN(d) THEN NaN
    ELSE (a + b + c + d) \div 4

(* The four ratios and the composite, from the two rolling volatilities,    *)
(* the jump frequency and the 5th and 95th percentile of the final returns. *)
RiskState(vol_20, vol_100, stock_cvar, jump_freq, p5, p95) ==
    LET vol_ratio   == RatioOrOne(vol_20, vol_100)
        vol_score   == Clamp01(DivFix(Sub(vol_ratio, 7000), 8000))
        tail_ratio  == RatioOrOne(Abs(stock_cvar.cvar_99), Abs(stock_cvar.var_99))
        tail_score  == Clamp01(DivFix(Sub(tail_ratio, 11000), 5000))
        jump_score  == PyMin(DivFix(jump_freq, 300), SC)
        width       == Abs(Sub(p95, p5))
        width_score == Clamp01(DivFix(Sub(width, 10 * SC), 50 * SC))
        composite   == Mean4(vol_score, tail_score, jump_score, width_score)
    IN  [error              |-> "",
         jump_freq          |-> jump_freq,
         vol_ratio          |-> vol_ratio,
         tail_ratio         |-> tail_ratio,
         distribution_width |-> width,
         risk_state_score   |-> IF IsNaN(composite) THEN NaN ELSE composite * 100]

(* calculate_risk_state_score(stock_data, final_returns, stock_cvar).  With *)
(* a history of one price the return series is empty and .iloc[-1] raises   *)
(* IndexError.                                                              *)
CalculateRiskStateScore(close, final_returns, stock_cvar) ==
    Strict1(LAMBDA returns :
                IF Len(returns) = 0
                THEN [error |-> "IndexError", jump_freq |-> NaN, vol_ratio |-> NaN,
                      tail_ratio |-> NaN, distribution_width |-> NaN,
                      risk_state_score |-> NaN]
                ELSE RiskState(RollingVol(returns, ROLL_SHORT),
                               RollingVol(returns, ROLL_LONG),
                               stock_cvar,
                               JumpFreq(returns),
                               Percentile(final_returns, 5),
                               Percentile(final_returns, 95)),
            PctChange(close))

-----------------------------------------------------------------------------
(* monte_carlo_risk_engine.py: the constructor, stage by stage *)

(* The object after the constructor stored its arguments (lines 14-20);     *)
(* raised is the exception that left the constructor, if any.               *)
NewEngine(days, n, w, custom) ==
    [stock_data            |-> None,
     stock_price           |-> None,
     stock_volatility      |-> None,
     stock_expected_return |-> None,
     stock_paths           |-> None,
     stock_final_prices    |-> None,
     stock_final_returns   |-> None,
     stress_results        |-> None,
     historical_window     |-> w,
     custom_stock_price    |-> custom,
     stock_cvar            |-> None,
     days_to_simulate      |-> days,
     num_simulations       |-> n,
     stock_percentiles     |-> None,
     risk_state            |-> None,
     raised                |-> ""]

NoCall == [error |-> "", args |-> <<>>, result |-> <<>>]

NoRun == [result |-> <<>>, cfg |-> <<>>, draws |-> 0]

NoQuery == [target |-> 0, rank |-> 0, made |-> FALSE]

McIdle == rng = 0 /\ genA = 0 /\ extDraws = 0 /\ runs = <<>>

PctIdle == engine = <<>> /\ pc = "idle" /\ rank_queries = <<>>

FnIdle == stock_data = <<>> /\ call = NoCall /\ effects = <<>>

ScrIdle == RESULTS = <<>> /\ output_file = <<>> /\ screener = <<>>

(* MonteCarloRiskEngine(symbol, capital, days, n, w, loss, custom) *)
Construct(days, n, w, custom) ==
    /\ pc = "new"
    /\ engine' = NewEngine(days, n, w, custom)
    /\ pc' = "download"
    /\ UNCHANGED <<rank_queries, mcVars, fnVars, scrVars>>

(* self.stock_data = download_data(stock_symbol, historical_window) *)
Download ==
    /\ pc = "download"
    /\ \E got \in {DownloadData(stock_data)} :
           IF got.error # ""
           THEN engine' = [engine EXCEPT !.raised = got.error] /\ pc' = "failed"
           ELSE engine' = [engine EXCEPT !.stock_data = got.stock_data]
                /\ pc' = "set_prices"
    /\ effects' = Append(effects, "download")
    /\ UNCHANGED <<rank_queries, mcVars, stock_data, call, scrVars>>

(* self.stock_price = set_starting_prices(...) *)
SetPrices ==
    /\ pc = "set_prices"
    /\ engine' = [engine EXCEPT !.stock_price =
                      SetStartingPrices(engine.stock_data, engine.custom_stock_price)]
    /\ pc' = "statistics"
    /\ UNCHANGED <<rank_queries, mcVars, fnVars, scrVars>>

(* stats = calculate_statistics(..., risk_free_rate=0.042) *)
CalcStatistics ==
    /\ pc = "statistics"
    /\ \E stats \in {CalculateStatistics(engine.stock_data, engine.historical_window,
                                         RISK_FREE_RATE)} :
           engine' = [engine EXCEPT
                          !.stock_volatility = stats.stock_volatility,
                          !.stock_expected_return = stats.stock_expected_return]
    /\ pc' = "simulate"
    /\ UNCHANGED <<rank_queries, mcVars, fnVars, scrVars>>

(* What run_monte_carlo did to the generator: the seeding, then for every   *)
(* call of run_single_simulation the standard_t draw and, unless the call   *)
(* raised before it, the rand draw.                                         *)
SimEffects(res) ==
    <<"seed">> \o
    [k \in 1..(2 * Len(res.calls) - (IF res.error # "" THEN 1 ELSE 0)) |->
        IF k % 2 = 1 THEN "standard_t" ELSE "rand"]

(* sim_results = run_monte_carlo(self.stock_price, stats, days, n) *)
RunSimulation ==
    /\ pc = "simulate"
    /\ \E res \in {RunMonteCarlo(engine.stock_price,
                                 [stock_volatility      |-> engine.stock_volatility,
                                  stock_expected_return |-> engine.stock_expected_return],
                                 engine.days_to_simulate, engine.num_simulations,
                                 rng)} :
           /\ IF res.error # ""
              THEN engine' = [engine EXCEPT !.raised = res.error] /\ pc' = "failed"
              ELSE engine' = [engine EXCEPT
                                  !.stock_paths = res.stock_paths,
                                  !.stock_final_prices = res.stock_final_prices,
                                  !.stock_final_returns = res.stock_final_returns,
                                  !.stress_results = res.stress_results]
                   /\ pc' = "percentiles"
           /\ rng' = res.rng
           /\ effects' = effects \o SimEffects(res)
    /\ UNCHANGED <<rank_queries, genA, extDraws, runs, stock_data, call, scrVars>>

(* A percentile stage that sorts the vectors it is given in place. *)
CalcPercentilesInPlace ==
    /\ pc = "percentiles"
    /\ engine' = [engine EXCEPT
                      !.stock_final_prices = Ordered(engine.stock_final_prices),
                      !.stock_final_returns = Ordered(engine.stock_final_returns),
                      !.stock_percentiles =
                          CalculatePercentiles(engine.stock_final_returns,
                                               engine.stock_final_prices)]
    /\ pc' = "cvar"
    /\ UNCHANGED <<rank_queries, mcVars, fnVars, scrVars>>

(* self.stock_percentiles = calculate_percentiles(returns, prices) *)
CalcPercentiles ==
    /\ pc = "percentiles"
    /\ engine' = [engine EXCEPT !.stock_percentiles =
                      CalculatePercentiles(engine.stock_final_returns,
                                           engine.stock_final_prices)]
    /\ pc' = "cvar"
    /\ UNCHANGED <<rank_queries, mcVars, fnVars, scrVars>>

(* self.stock_cvar = calculate_cvar(self.stock_final_returns) *)
CalcCvar ==
    /\ pc = "cvar"
    /\ engine' = [engine EXCEPT !.stock_cvar = CalculateCvar(engine.stock_final_returns)]
    /\ pc' = "risk_state"
    /\ UNCHANGED <<rank_queries, mcVars, fnVars, scrVars>>

(* self.risk_state = calculate_risk_state_score(stock_data, returns, cvar) *)
CalcRiskState ==
    /\ pc = "risk_state"
    /\ \E res \in {CalculateRiskStateScore(engine.stock_data,
                                           engine.stock_final_returns,
                                           engine.stock_cvar)} :
           IF res.error # ""
           THEN engine' = [engine EXCEPT !.raised = res.error] /\ pc' = "failed"
           ELSE engine' = [engine EXCEPT !.risk_state = res] /\ pc' = "ready"
    /\ UNCHANGED <<rank_queries, mcVars, fnVars, scrVars>>

(* The dictionary run_full_analysis hands to create_visualization: the      *)
(* fields of the object, by reference, and the target price.                *)
AnalysisData(self, target_price_to_check) ==
    [stock_data            |-> self.stock_data,
     stock_price           |-> self.stock_price,
     stock_volatility      |-> self.stock_volatility,
     stock_expected_return |-> self.stock_expected_return,
     stock_paths           |-> self.stock_paths,
     stock_final_returns   |-> self.stock_final_returns,
     stress_results        |-> self.stress_results,
     historical_window     |-> self.historical_window,
     custom_stock_price    |-> self.custom_stock_price,
     stock_cvar            |-> self.stock_cvar,
     days_to_simulate      |-> self.days_to_simulate,
     num_simulations       |-> self.num_simulations,
     stock_percentiles     |-> self.stock_percentiles,
     risk_state            |-> self.risk_state,
     target_price_to_check |-> target_price_to_check]

MaxAnalyses == 2

(* engine.run_full_analysis(target_price_to_check): create_visualization    *)
(* reads the dictionary, draws the figure and saves it; it assigns to none  *)
(* of the dictionary's values.                                              *)
RunFullAnalysis(target_price_to_check) ==
    /\ pc = "ready"
    /\ Len(SelectSeq(effects, LAMBDA e : e = "savefig")) < MaxAnalyses
    /\ call' = [error  |-> "",
                args   |-> AnalysisData(engine, target_price_to_check),
                result |-> <<>>]
    /\ effects' = Append(effects, "savefig")
    /\ UNCHANGED <<engine, pc, rank_queries, mcVars, stock_data, scrVars>>

-----------------------------------------------------------------------------
(* mc_viz.py: what the dashboard computes from the dictionary it is given *)

(* percentiles_to_show = [1, 5, 10, 15, 25, 50, 75, 85, 90, 95, 99] *)
PERCENTILES_TO_SHOW == <<1, 5, 10, 15, 25, 50, 75, 85, 90, 95, 99>>

(* strike_price = current_price * (1 + return_pct / 100) *)
StrikePrice(current_price, return_pct) ==
    IF IsNaN(return_pct) THEN NaN
    ELSE MulFix(current_price, SC + return_pct \div 100)

(* _plot_strike_guide(ax, data): one row per percentile shown that the      *)
(* percentile table has.                                                    *)
StrikeGuide(data) ==
    LET table == data.stock_percentiles
        shown == SelectSeq(PERCENTILES_TO_SHOW, LAMBDA p : \E k \in 1..Len(table) : table[k].percentile = p)
        RowOf(p) == table[CHOOSE k \in 1..Len(table) : table[k].percentile = p]
    IN  [j \in 1..Len(shown) |->
            [percentile   |-> shown[j],
             strike_price |-> StrikePrice(data.stock_price, RowOf(shown[j]).return)]]

(* drop_pct = ((target_price - custom_price) / custom_price) * 100 *)
DropPct(target_price, custom_price) ==
    LET share == DivFix(target_price - custom_price, custom_price)
    IN  IF IsNaN(share) THEN NaN ELSE share * 100

(* _plot_statistical_summary(ax, data): the rank shown in backtest mode,    *)
(* that is when a custom price and a target price are both given and        *)
(* non-zero.                                                                *)
StatisticalSummary(data) ==
    IF /\ data.custom_stock_price # NoCustomPrice
       /\ data.custom_stock_price # 0
       /\ data.target_price_to_check # 0
    THEN [backtest |-> TRUE,
          percentile_rank |-> PercentileRank(data.stock_final_returns, DropPct(data.target_price_to_check, data.custom_stock_price))]
    ELSE [backtest |-> FALSE, percentile_rank |-> 0]

-----------------------------------------------------------------------------
(* run_analysis.py: the driver's target-price analysis of a built engine *)

RankQuery(target) ==
    /\ pc = "ready"
    /\ rank_queries' =
           [prev |-> rank_queries.last,
            last |-> [target |-> target,
                      rank   |-> PercentileRank(engine.stock_final_prices, target),
                      made   |-> TRUE]]
    /\ UNCHANGED <<engine, pc, mcVars, fnVars, scrVars>>

(* The driver script after the engine is built: run_full_analysis with the  *)
(* target price, then the driver's own rank of the target among the final   *)
(* prices.  The target is the k-th final price moved by offset.             *)
RunDriver(k, offset) ==
    /\ pc = "ready"
    /\ call = NoCall
    /\ k <= Len(engine.stock_final_prices)
    /\ ~IsNaN(engine.stock_final_prices[k])
    /\ \E target \in {engine.stock_final_prices[k] + offset} :
         /\ call' = [error  |-> "",
                     args   |-> AnalysisData(engine, target),
                     result |-> StatisticalSummary(AnalysisData(engine, target))]
         /\ rank_queries' =
                [prev |-> rank_queries.last,
                 last |-> [target |-> target,
                           rank   |-> PercentileRank(engine.stock_final_prices, target),
                           made   |-> TRUE]]
    /\ effects' = Append(effects, "savefig")
    /\ UNCHANGED <<engine, pc, mcVars, stock_data, scrVars>>

-----------------------------------------------------------------------------
(* A process that calls run_monte_carlo again and again *)

MaxDays == 2

MaxPaths == 2

MaxExtDraws == 1

McConfigs ==
    [n : 1..MaxPaths, days : 0..MaxDays, sigma : {2000}, mu : {2520},
     stock_price : {1000000}]

SimConfigs ==
    [n : 1..MaxPaths, days : 0..MaxDays, sigma : {0, 2000, 3000},
     mu : {0, 420, 2520}, stock_price : {500000, 1000000}]

McInit ==
    /\ ScrIdle
    /\ PctIdle
    /\ FnIdle
    /\ genA \in GenStreams
    /\ rng = 0
    /\ extDraws = 0
    /\ runs = [prev |-> NoRun, last |-> NoRun]

(* Any other code of the process draws from the process-wide generator. *)
ExternalDraw ==
    /\ extDraws < MaxExtDraws
    /\ rng' = RngNext(rng)
    /\ extDraws' = extDraws + 1
    /\ UNCHANGED <<genA, runs, pctVars, fnVars, scrVars>>

(* A call run_monte_carlo(stock_price, stats, days_to_simulate,            *)
(* num_simulations).  runs keeps this invocation and the one before, each  *)
(* with the number of draws the process made since the invocation before.  *)
CallRunMonteCarlo(c) ==
    \E res \in {RunMonteCarlo(c.stock_price,
                              [stock_volatility |-> c.sigma,
                               stock_expected_return |-> c.mu],
                              c.days, c.n, rng)} :
        /\ runs' = [prev |-> runs.last,
                    last |-> [result |-> res, cfg |-> c, draws |-> extDraws]]
        /\ rng' = res.rng
        /\ extDraws' = 0
        /\ UNCHANGED <<genA, pctVars, fnVars, scrVars>>

McNext ==
    \/ ExternalDraw
    \/ \E c \in McConfigs : CallRunMonteCarlo(c)

SpecMC == McInit /\ [][McNext]_vars

(* A process that calls run_monte_carlo once. *)
SimNext ==
    \/ ExternalDraw
    \/ \E c \in SimConfigs : runs.last = NoRun /\ CallRunMonteCarlo(c)

SpecSim == McInit /\ [][SimNext]_vars

(* A caller that chooses a seed the only way the code leaves it,           *)
(* np.random.seed(s) on the process-wide generator, and then calls         *)
(* run_monte_carlo once.                                                   *)
SeedsSupplied == {7, SEED, 99}

SeedGenerator(s) ==
    /\ call = NoCall
    /\ runs.last = NoRun
    /\ rng' = SeedState(s)
    /\ call' = [error |-> "", args |-> [seed |-> s], result |-> <<>>]
    /\ UNCHANGED <<genA, extDraws, runs, stock_data, effects, pctVars, scrVars>>

SeedNext ==
    \/ \E s \in SeedsSupplied : SeedGenerator(s)
    \/ \E c \in SimConfigs : runs.last = NoRun /\ CallRunMonteCarlo(c)

SpecSeed == McInit /\ [][SeedNext]_vars

(* A process that makes two measurements: each seeds the generator, calls  *)
(* run_single_simulation with its own jump overlay and takes VaR and CVaR  *)
(* of the final returns.                                                   *)
JumpConfigs ==
    [n : 1..MaxPaths, days : 1..MaxDays, sigma : {2000, 3000}, jump_prob : {0, 5000},
     mu : {400}, jump_magnitude : {-1000}, stock_price : {1000000},
     seed : SeedsSupplied]

(* np.random.seed(seed); paths, final_prices, final_returns =              *)
(* run_single_simulation(stock_price, mu, sigma, days, n, jump_prob,       *)
(* jump_magnitude); calculate_cvar(final_returns)                          *)
SimulateAndMeasure(c) ==
    /\ runs.prev = NoRun
    /\ \E e \in {RunSingleSimulation(c.stock_price, c.mu, c.sigma, c.days, c.n,
                                     c.jump_prob, c.jump_magnitude, DF, EWMA_LAMBDA,
                                     SeedState(c.seed))} :
           /\ runs' = [prev |-> runs.last,
                       last |-> [result |-> [stock_cvar |-> CalculateCvar(e.final_returns),
                                             ensemble   |-> e],
                                 cfg    |-> c,
                                 draws  |-> 0]]
           /\ rng' = e.rng
    /\ UNCHANGED <<genA, extDraws, pctVars, fnVars, scrVars>>

JumpNext == \E c \in JumpConfigs : SimulateAndMeasure(c)

SpecJump == McInit /\ [][JumpNext]_vars

(* A process that calls run_single_simulation once, with the generator in   *)
(* any state; the call is recorded with the function's local variables.     *)
StepConfigs ==
    [n : 1..MaxPaths, days : 1..MaxDays, sigma : {0, 2000, 3000}, jump_prob : {0, 5000},
     mu : {400}, jump_magnitude : {-1000}, stock_price : {1000000},
     entry : 0..(RngMod - 1)]

(* run_single_simulation(stock_price, mu, sigma, days, n, jump_prob,        *)
(* jump_magnitude), df and lambda_ left at their defaults 5 and 0.94        *)
CallRunSingleSimulation(c) ==
    /\ call = NoCall
    /\ rng = c.entry
    /\ \E e \in {RunSingleSimulation(c.stock_price, c.mu, c.sigma, c.days, c.n,
                                     c.jump_prob, c.jump_magnitude, DF, EWMA_LAMBDA,
                                     rng)} :
           /\ call' = [error  |-> e.error,
                       args   |-> c,
                       result |-> [out    |-> e,
                                   locals |-> SimLocals(c.stock_price, c.mu, c.sigma,
                                                        c.days, c.n, c.jump_prob,
                                                        c.jump_magnitude, DF,
                                                        EWMA_LAMBDA, rng)]]
           /\ rng' = e.rng
    /\ UNCHANGED <<genA, extDraws, runs, stock_data, effects, pctVars, scrVars>>

StepInit ==
    /\ ScrIdle
    /\ PctIdle
    /\ FnIdle
    /\ genA \in GenStreams
    /\ rng \in 0..(RngMod - 1)
    /\ extDraws = 0
    /\ runs = [prev |-> NoRun, last |-> NoRun]

StepNext == \E c \in StepConfigs : CallRunSingleSimulation(c)

SpecSteps == StepInit /\ [][StepNext]_vars

(* A process that runs steps 2 to 5 on a matrix of shocks and jump          *)
(* indicators, and once more after the draws of one path were replaced.     *)
ShockValues == {-20000, 5000}

PathConfig == [sigma |-> 2000, mu |-> 400, jump_magnitude |-> -1000, stock_price |-> 1000000]

Shape(days, n) == [n |-> n, days |-> days]

SimulateShocks(shape, z, jump_matrix) ==
    [result |-> SimFromShocks(PathConfig.stock_price, PathConfig.mu, PathConfig.sigma,
                              shape.days, shape.n, z, jump_matrix,
                              PathConfig.jump_magnitude, EWMA_LAMBDA),
     cfg    |-> [z |-> z, jump_matrix |-> jump_matrix, shape |-> shape],
     draws  |-> 0]

(* The first run: any shocks; jumps nowhere or on the last day of every path. *)
FirstRun(shape, z, jump_last_day) ==
    /\ runs.last = NoRun
    /\ runs' = [prev |-> runs.last,
                last |-> SimulateShocks(shape, z,
                             [t \in 1..shape.days |-> [p \in 1..shape.n |->
                                 jump_last_day /\ t = shape.days]])]
    /\ UNCHANGED <<rng, genA, extDraws, pctVars, fnVars, scrVars>>

(* The second run: path p has other shocks, and a jump on day 1 or none. *)
ChangePath(p, shocks, jump_first_day) ==
    /\ runs.last # NoRun
    /\ runs.prev = NoRun
    /\ p \in 1..runs.last.cfg.shape.n
    /\ runs' = [prev |-> runs.last,
                last |-> SimulateShocks(
                             runs.last.cfg.shape,
                             [t \in 1..runs.last.cfg.shape.days |->
                                 [q \in 1..runs.last.cfg.shape.n |->
                                     IF q = p THEN shocks[t] ELSE runs.last.cfg.z[t][q]]],
                             [t \in 1..runs.last.cfg.shape.days |->
                                 [q \in 1..runs.last.cfg.shape.n |->
                                     IF q = p THEN jump_first_day /\ t = 1
                                     ELSE runs.last.cfg.jump_matrix[t][q]]])]
    /\ UNCHANGED <<rng, genA, extDraws, pctVars, fnVars, scrVars>>

PathNext ==
    \/ \E days \in 1..MaxDays, n \in 2..MaxPaths :
           \E z \in [1..days -> [1..n -> ShockValues]], jump_last_day \in BOOLEAN :
               FirstRun(Shape(days, n), z, jump_last_day)
    \/ \E p \in 1..MaxPaths, jump_first_day \in BOOLEAN :
           \E shocks \in [1..MaxDays -> ShockValues] :
               ChangePath(p, shocks, jump_first_day)

SpecPaths == McInit /\ [][PathNext]_vars

-----------------------------------------------------------------------------
(* The analysis of one ensemble: the constructor from calculate_percentiles *)
(* on, then the driver's target-price queries                               *)

MaxSample == 4

PriceValues == {900000, 950000, 1000000, 1100000}

(* The toy ensemble of the target-price example. *)
ToyPrices == <<900000, 950000, 1000000, 1050000, 1100000>>

WideSize == 25

(* An ensemble large enough for more than one return below the 5th          *)
(* percentile: WideSize prices between 88 and 112, in no order.             *)
WidePrices == [k \in 1..WideSize |-> 880000 + ((k * 7) % WideSize) * 10000]

Targets == {850000, 900000, 950000, 1020000, 1100000, 1200000}

RECURSIVE SeqsUpTo(_, _)
(* The sequences over S of length 1..k. *)
SeqsUpTo(S, k) ==
    IF k = 0 THEN {}
    ELSE LET shorter == SeqsUpTo(S, k - 1)
         IN  {<<x>> : x \in S} \cup shorter \cup
             {Append(q, x) : q \in {r \in shorter : Len(r) = k - 1}, x \in S}

(* An engine whose simulation produced the given final prices. *)
PctInit ==
    /\ ScrIdle
    /\ McIdle
    /\ FnIdle
    /\ \E sp \in {500000, 1000000} :
       \E fp \in SeqsUpTo(PriceValues, MaxSample) \cup {ToyPrices, WidePrices} :
           engine = [NewEngine(1, Len(fp), 3, sp) EXCEPT
                         !.stock_data = <<1000000, 1020000, 1000000>>,
                         !.stock_price = sp,
                         !.stock_final_prices = fp,
                         !.stock_final_returns =
                             [i \in 1..Len(fp) |-> FinalReturn(fp[i], sp)]]
    /\ pc = "percentiles"
    /\ rank_queries = [prev |-> NoQuery, last |-> NoQuery]

PctNext ==
    \/ CalcPercentiles
    \/ CalcCvar
    \/ CalcRiskState
    \/ \E target \in Targets : RankQuery(target)

SpecPct == PctInit /\ [][PctNext]_vars

-----------------------------------------------------------------------------
(* Calls of calculate_statistics on a price history *)

MaxStatHistory == 4

MaxLookback == 5

StatPrices == {960000, 1000000, 1020000}

StatInit ==
    /\ ScrIdle
    /\ McIdle
    /\ PctIdle
    /\ stock_data \in SeqsUpTo(StatPrices, MaxStatHistory)
    /\ call = NoCall
    /\ effects = <<>>

(* calculate_statistics(stock_data, w, symbol) *)
CallCalculateStatistics(w) ==
    /\ call' = [error  |-> "",
                args   |-> [historical_window |-> w],
                result |-> CalculateStatistics(stock_data, w, RISK_FREE_RATE)]
    /\ UNCHANGED <<stock_data, effects, mcVars, pctVars, scrVars>>

StatNext == \E w \in 0..MaxLookback : CallCalculateStatistics(w)

SpecStats == StatInit /\ [][StatNext]_vars

(* risk_free_rate=0.04, the parameter's default *)
DEFAULT_RISK_FREE_RATE == 400

(* No risk_free_rate argument in the call. *)
NoRate == -1

RatesSupplied == {NoRate, 0, RISK_FREE_RATE}

(* The value bound to the parameter risk_free_rate. *)
BoundRate(rate) == IF rate = NoRate THEN DEFAULT_RISK_FREE_RATE ELSE rate

(* calculate_statistics(stock_data, w, symbol) and                         *)
(* calculate_statistics(stock_data, w, symbol, risk_free_rate=rate): the   *)
(* function has no other parameter that bears on the drift.                *)
CallCalculateStatisticsWith(w, rate) ==
    /\ call' = [error  |-> "",
                args   |-> [historical_window |-> w, risk_free_rate |-> rate],
                result |-> CalculateStatistics(stock_data, w, BoundRate(rate))]
    /\ UNCHANGED <<stock_data, effects, mcVars, pctVars, scrVars>>

DriftNext ==
    \E w \in 0..MaxLookback, rate \in RatesSupplied : CallCalculateStatisticsWith(w, rate)

SpecDrift == StatInit /\ [][DriftNext]_vars

-----------------------------------------------------------------------------
(* Calls of calculate_risk_state_score *)

MaxHistory == 103

HistLengths ==
    {1, 2, ROLL_SHORT, ROLL_SHORT + 1, ROLL_LONG, ROLL_LONG + 1, MaxHistory}

HistShapes == {"flat", "zigzag", "wild_end", "crash"}

(* A price history of the given length: flat; alternating by 2%; calm with  *)
(* 5% swings over the last 20 days; flat with a 4% drop on the last day.    *)
HistoryOf(len, shape) ==
    [i \in 1..len |->
        LET k == len - i
        IN  CASE shape = "flat"     -> 1000000
              [] shape = "zigzag"   -> IF k % 2 = 0 THEN 1000000 ELSE 1020000
              [] shape = "wild_end" -> IF k % 2 = 0 THEN 1000000
                                       ELSE IF k < ROLL_SHORT THEN 1050000
                                       ELSE 1010000
              [] shape = "crash"    -> IF k = 0 THEN 960000 ELSE 1000000]

ReturnVectors ==
    { <<0>>,
      <<-100000, 0, 100000>>,
      <<-400000, -100000, 0, 300000, 500000>> }

(* The VaR/CVaR values of the returns, and others. *)
CvarInputs(returns) ==
    { CalculateCvar(returns),
      [var_95 |-> 0, cvar_95 |-> 0, var_99 |-> 0, cvar_99 |-> 0],
      [var_95 |-> -50000, cvar_95 |-> -80000, var_99 |-> -100000, cvar_99 |-> -140000],
      [var_95 |-> -50000, cvar_95 |-> -80000, var_99 |-> -100000, cvar_99 |-> -300000] }

RiskInit ==
    /\ ScrIdle
    /\ McIdle
    /\ PctIdle
    /\ \E len \in HistLengths, shape \in HistShapes : stock_data = HistoryOf(len, shape)
    /\ call = NoCall
    /\ effects = <<>>

(* calculate_risk_state_score(stock_data, final_returns, stock_cvar) *)
CallRiskStateScore(final_returns, stock_cvar) ==
    /\ \E res \in {CalculateRiskStateScore(stock_data, final_returns, stock_cvar)} :
           call' = [error  |-> res.error,
                    args   |-> [final_returns |-> final_returns,
                                stock_cvar    |-> stock_cvar],
                    result |-> res]
    /\ UNCHANGED <<stock_data, effects, mcVars, pctVars, scrVars>>

RiskNext ==
    \E final_returns \in ReturnVectors :
        \E stock_cvar \in CvarInputs(final_returns) :
            CallRiskStateScore(final_returns, stock_cvar)

SpecRisk == RiskInit /\ [][RiskNext]_vars

-----------------------------------------------------------------------------
(* Constructions of the engine *)

(* What yfinance has for the symbol: nothing, or a short history. *)
Markets ==
    { <<>>,
      <<1000000>>,
      <<1000000, 1000000, 1000000>>,
      <<1000000, 1020000, 1000000, 960000>> }

EngineInit ==
    /\ ScrIdle
    /\ genA \in GenStreams
    /\ rng \in {0, 5}
    /\ extDraws = 0
    /\ runs = <<>>
    /\ engine = <<>>
    /\ pc = "new"
    /\ rank_queries = [prev |-> NoQuery, last |-> NoQuery]
    /\ stock_data \in Markets
    /\ call = NoCall
    /\ effects = <<>>

EngineNext ==
    \/ \E days \in 0..MaxDays, n \in 1..MaxPaths, w \in {2, 3, 6},
          custom \in {NoCustomPrice, 500000} : Construct(days, n, w, custom)
    \/ Download
    \/ SetPrices
    \/ CalcStatistics
    \/ RunSimulation
    \/ CalcPercentiles
    \/ CalcCvar
    \/ CalcRiskState
    \/ \E target \in Targets : RankQuery(target)

SpecEngine == EngineInit /\ [][EngineNext]_vars

(* The constructor, then any number of calls of run_full_analysis on the    *)
(* object built.                                                            *)
AnalysisNext ==
    \/ \E days \in 0..MaxDays, n \in 1..MaxPaths, w \in {2, 3, 6},
          custom \in {NoCustomPrice, 500000} : Construct(days, n, w, custom)
    \/ Download
    \/ SetPrices
    \/ CalcStatistics
    \/ RunSimulation
    \/ CalcPercentiles
    \/ CalcCvar
    \/ CalcRiskState
    \/ \E target \in Targets : RunFullAnalysis(target)

SpecAnalysis == EngineInit /\ [][AnalysisNext]_vars

-----------------------------------------------------------------------------
(* The enhanced screener: Screener/main_enhanced.py *)

(* The ticker file lists NumTickers symbols; every third one has no data,   *)
(* so analyze_stock fails on it.                                            *)
NumTickers == 100

MaxInterrupts == 2

save_interval == 100

NoResult == <<>>

NoFile == <<>>

load_tickers == [t \in 1..NumTickers |-> t]

Delisted(ticker) == ticker % 3 = 0

ZScoreOf(ticker) == ((ticker * 37) % 101) * 100 - 5000

(* analyze_stock(ticker): the dictionary returned, with the fields the      *)
(* screener's loop and writer read.                                         *)
AnalyzeStock(ticker) ==
    IF Delisted(ticker)
    THEN [error |-> "no data", ticker |-> ticker, success |-> FALSE]
    ELSE [ticker |-> ticker, success |-> TRUE, z_score |-> ZScoreOf(ticker)]

(* write_results_to_excel(results, output_path): the rows of the file       *)
(* afterwards; nothing is written when no result is successful.             *)
WriteResultsToExcel(results, file) ==
    LET df == SelectSeq(results, LAMBDA r : r.success)
        sorted == SortSeq(df, LAMBDA a, b : a.z_score < b.z_score)
    IN  IF Len(df) = 0 THEN file
        ELSE [k \in 1..Len(sorted) |-> [ticker |-> sorted[k].ticker, z_score |-> sorted[k].z_score]]

(* The places in the loop that sit inside a try block with a bare except:   *)
(* get_simple_fundamentals and the 52-week-high download of analyze_stock.  *)
BareExcept == {"fundamentals", "recent_high"}

AfterExcept(at) == IF at = "fundamentals" THEN "z_score" ELSE "build"

NextTicker(s) ==
    IF s.i < Len(load_tickers)
    THEN [s EXCEPT !.at = "fundamentals", !.i = s.i + 1, !.result = NoResult]
    ELSE [s EXCEPT !.at = "final", !.result = NoResult]

ScreenerInit ==
    /\ McIdle
    /\ PctIdle
    /\ FnIdle
    /\ RESULTS = <<>>
    /\ output_file = NoFile
    /\ screener = [i |-> 0, result |-> NoResult, at |-> "load", interrupts |-> 0]

(* main(), up to the head of the loop *)
LoadTickers ==
    /\ screener.at = "load"
    /\ screener' = NextTicker(screener)
    /\ UNCHANGED <<RESULTS, output_file, mcVars, pctVars, fnVars>>

(* analyze_stock: get_simple_fundamentals(ticker) *)
GetFundamentals ==
    /\ screener.at = "fundamentals"
    /\ screener' = [screener EXCEPT !.at = "z_score"]
    /\ UNCHANGED <<RESULTS, output_file, mcVars, pctVars, fnVars>>

(* analyze_stock: get_z_score(ticker) *)
GetZScore ==
    /\ screener.at = "z_score"
    /\ screener' = [screener EXCEPT !.at = "engine"]
    /\ UNCHANGED <<RESULTS, output_file, mcVars, pctVars, fnVars>>

(* analyze_stock: the engine is built; a symbol without data raises, and    *)
(* the function returns its failure dictionary.                             *)
BuildEngine ==
    /\ screener.at = "engine"
    /\ screener' = IF Delisted(load_tickers[screener.i])
                   THEN [screener EXCEPT !.at = "append", !.result = AnalyzeStock(load_tickers[screener.i])]
                   ELSE [screener EXCEPT !.at = "recent_high"]
    /\ UNCHANGED <<RESULTS, output_file, mcVars, pctVars, fnVars>>

(* analyze_stock: the 52-week high *)
GetRecentHigh ==
    /\ screener.at = "recent_high"
    /\ screener' = [screener EXCEPT !.at = "build"]
    /\ UNCHANGED <<RESULTS, output_file, mcVars, pctVars, fnVars>>

(* analyze_stock: the result dictionary is built and returned *)
BuildResult ==
    /\ screener.at = "build"
    /\ screener' = [screener EXCEPT !.at = "append", !.result = AnalyzeStock(load_tickers[screener.i])]
    /\ UNCHANGED <<RESULTS, output_file, mcVars, pctVars, fnVars>>

(* main: if result['success']: RESULTS.append(result) *)
AppendResult ==
    /\ screener.at = "append"
    /\ RESULTS' = IF screener.result.success THEN Append(RESULTS, screener.result) ELSE RESULTS
    /\ screener' = [screener EXCEPT !.at = "auto_save"]
    /\ UNCHANGED <<output_file, mcVars, pctVars, fnVars>>

(* main: if i % save_interval == 0 and RESULTS: the writer is entered *)
AutoSaveCheck ==
    /\ screener.at = "auto_save"
    /\ screener' = IF screener.i % save_interval = 0 /\ RESULTS # <<>>
                   THEN [screener EXCEPT !.at = "writing"]
                   ELSE NextTicker(screener)
    /\ UNCHANGED <<RESULTS, output_file, mcVars, pctVars, fnVars>>

(* main: the auto-save finishes, or fails with a warning *)
AutoSave(ok) ==
    /\ screener.at = "writing"
    /\ output_file' = IF ok THEN WriteResultsToExcel(RESULTS, output_file) ELSE output_file
    /\ screener' = NextTicker(screener)
    /\ UNCHANGED <<RESULTS, mcVars, pctVars, fnVars>>

(* main: the final save, and the return *)
FinalSave(ok) ==
    /\ screener.at = "final"
    /\ output_file' = IF RESULTS # <<>> /\ ok THEN WriteResultsToExcel(RESULTS, output_file) ELSE output_file
    /\ screener' = [screener EXCEPT !.at = "done"]
    /\ UNCHANGED <<RESULTS, mcVars, pctVars, fnVars>>

(* Ctrl+C: signal_handler runs in the main thread at the place the thread   *)
(* has reached, writes RESULTS if there are any, and calls sys.exit(0).     *)
(* The SystemExit is raised at that place: a bare except there catches it   *)
(* and the thread goes on; anywhere else it ends the process.               *)
SignalHandler(ok) ==
    /\ screener.at \notin {"done", "exited"}
    /\ screener.interrupts < MaxInterrupts
    /\ output_file' = IF RESULTS # <<>> /\ ok THEN WriteResultsToExcel(RESULTS, output_file) ELSE output_file
    /\ screener' = [screener EXCEPT !.interrupts = @ + 1,
                                    !.at = IF @ \in BareExcept THEN AfterExcept(@) ELSE "exited"]
    /\ UNCHANGED <<RESULTS, mcVars, pctVars, fnVars>>

ScreenerNext ==
    \/ LoadTickers
    \/ GetFundamentals
    \/ GetZScore
    \/ BuildEngine
    \/ GetRecentHigh
    \/ BuildResult
    \/ AppendResult
    \/ AutoSaveCheck
    \/ \E ok \in BOOLEAN : AutoSave(ok)
    \/ \E ok \in BOOLEAN : FinalSave(ok)
    \/ \E ok \in BOOLEAN : SignalHandler(ok)

SpecScreener == ScreenerInit /\ [][ScreenerNext]_vars


-----------------------------------------------------------------------------
(* The driver script: the constructor, then one target-price analysis *)

TargetOffsets == {-1, 0, 1}

(* CUSTOM_STOCK_PRICE = 498.83 *)
CUSTOM_STOCK_PRICE == 4988300

BacktestNext ==
    \/ \E days \in 0..MaxDays, n \in 1..MaxPaths, w \in {2, 3, 6},
          custom \in {NoCustomPrice, CUSTOM_STOCK_PRICE} : Construct(days, n, w, custom)
    \/ Download
    \/ SetPrices
    \/ CalcStatistics
    \/ RunSimulation
    \/ CalcPercentiles
    \/ CalcCvar
    \/ CalcRiskState
    \/ \E k \in 1..MaxPaths, offset \in TargetOffsets : RunDriver(k, offset)

SpecBacktest == EngineInit /\ [][BacktestNext]_vars

-----------------------------------------------------------------------------
(* Properties of run_monte_carlo *)

SameOutputs(a, b) ==
    /\ a.error = b.error
    /\ a.stock_paths = b.stock_paths
    /\ a.stock_final_prices = b.stock_final_prices
    /\ a.stock_final_returns = b.stock_final_returns
    /\ a.stress_results = b.stress_results

TwoRuns == runs.prev # NoRun /\ runs.last # NoRun

(* C1: two invocations of run_monte_carlo with the same configuration       *)
(* return the same path matrices, final prices and final returns for every  *)
(* scenario of the ladder, whatever draws the process made before each.     *)
C1_Deterministic ==
    (TwoRuns /\ runs.prev.cfg = runs.last.cfg)
        => SameOutputs(runs.prev.result, runs.last.result)

(* Two completed runs of one configuration, the second entered after the    *)
(* process drew from the generator, the first not.                          *)
C1_Witness ==
    /\ TwoRuns
    /\ runs.prev.cfg = runs.last.cfg
    /\ runs.last.cfg.days >= 2 /\ runs.last.cfg.n >= 2 /\ runs.last.cfg.sigma > 0
    /\ runs.prev.draws = 0 /\ runs.last.draws > 0
    /\ runs.last.result.error = ""

Completed == runs.last # NoRun /\ runs.last.result.error = ""

RECURSIVE PowFix(_, _)
(* b^k *)
PowFix(b, k) == IF k = 0 THEN SC ELSE MulFix(PowFix(b, k - 1), b)

(* ((1 + drift / 252)^horizon - 1) x 100 *)
DriftImplied(mu, days) == (PowFix(SC + mu \div 252, days) - SC) * 100

(* The jump indicators the base scenario of the last run drew. *)
BaseJumps ==
    LET c == runs.last.result.calls[1]
    IN  SimJumps(c.args.jump_prob, RngAfter(c.entry, c.args.days * c.args.n),
                 c.args.days, c.args.n)

JumpOnPath(p) == \E t \in 1..runs.last.cfg.days : BaseJumps[t][p]

AllRows(table, v) == \A k \in 1..Len(table) : table[k].return = v

(* C9, as claimed: with volatility 0 every path has the drift-implied final *)
(* return and every row of the percentile table carries that value.         *)
C9_ZeroVolCollapses ==
    (Completed /\ runs.last.cfg.sigma = 0)
        => LET res == runs.last.result
               v   == DriftImplied(runs.last.cfg.mu, runs.last.cfg.days)
           IN  /\ \A p \in 1..runs.last.cfg.n : res.stock_final_returns[p] = v
               /\ AllRows(CalculatePercentiles(res.stock_final_returns,
                                               res.stock_final_prices), v)

(* C9, amended: with volatility 0 every path on which no jump fired has the *)
(* drift-implied final return, and when no jump fired on any path every row *)
(* of the percentile table carries that value.                              *)
C9_ZeroVolCollapsesWithoutJumps ==
    (Completed /\ runs.last.cfg.sigma = 0)
        => LET res == runs.last.result
               v   == DriftImplied(runs.last.cfg.mu, runs.last.cfg.days)
           IN  /\ \A p \in 1..runs.last.cfg.n :
                      ~JumpOnPath(p) => res.stock_final_returns[p] = v
               /\ (\A p \in 1..runs.last.cfg.n : ~JumpOnPath(p))
                      => AllRows(CalculatePercentiles(res.stock_final_returns,
                                                      res.stock_final_prices), v)

(* A zero-volatility run with drift, shocks that are not all zero, a path   *)
(* with a jump and a path without.                                          *)
C9_Witness ==
    /\ Completed
    /\ runs.last.cfg.sigma = 0 /\ runs.last.cfg.mu > 0
    /\ runs.last.cfg.days >= 2 /\ runs.last.cfg.n >= 2
    /\ \E p \in 1..runs.last.cfg.n : JumpOnPath(p)
    /\ \E p \in 1..runs.last.cfg.n :
           /\ ~JumpOnPath(p)
           /\ runs.last.result.stock_final_returns[p] > 0

(* C10: scenario m is simulated with volatility base_sigma x m and with the *)
(* same starting price, drift, horizon, path count, jump parameters,        *)
(* degrees of freedom and decay as every other scenario; the result maps    *)
(* each multiplier to the ensemble of its own call, and the top-level       *)
(* paths, final prices and final returns are those of multiplier 1.0.       *)
C10_StressLadder ==
    Completed
        => LET cfg   == runs.last.cfg
               res   == runs.last.result
               calls == res.calls
           IN  /\ Len(calls) = Len(VolMultipliers)
               /\ DOMAIN res.stress_results =
                      {VolMultipliers[i] : i \in 1..Len(VolMultipliers)}
               /\ \A i \in 1..Len(calls) :
                      /\ calls[i].args.sigma = MulFix(cfg.sigma, VolMultipliers[i])
                      /\ [calls[i].args EXCEPT !.sigma = 0] =
                             [calls[1].args EXCEPT !.sigma = 0]
                      /\ calls[i].args.stock_price = cfg.stock_price
                      /\ calls[i].args.mu = cfg.mu
                      /\ calls[i].args.days = cfg.days
                      /\ calls[i].args.n = cfg.n
                      /\ res.stress_results[VolMultipliers[i]] =
                             Ensemble(CallSimulation(calls[i].args, calls[i].entry))
               /\ res.stock_paths = res.stress_results[SC].stock_paths
               /\ res.stock_final_prices = res.stress_results[SC].stock_final_prices
               /\ res.stock_final_returns = res.stress_results[SC].stock_final_returns

(* A completed run whose three scenarios produced three different ensembles. *)
C10_Witness ==
    /\ Completed
    /\ runs.last.cfg.sigma > 0 /\ runs.last.cfg.days >= 2 /\ runs.last.cfg.n >= 2
    /\ \A i, j \in 1..Len(VolMultipliers) :
           i # j => runs.last.result.stress_results[VolMultipliers[i]] #
                    runs.last.result.stress_results[VolMultipliers[j]]

-----------------------------------------------------------------------------
(* Properties of calculate_percentiles, calculate_cvar and the rank query *)

Below(r, v) == {i \in 1..Len(r) : r[i] < v}

NotAbove(r, v) == {i \in 1..Len(r) : r[i] <= v}

RECURSIVE SumOver(_, _)
(* The sum of r over the index set S. *)
SumOver(S, r) ==
    IF S = {} THEN 0
    ELSE LET i == CHOOSE j \in S : TRUE
         IN  r[i] + SumOver(S \ {i}, r)

(* v is a q-th percentile of the sample r: more than q% of the n - 1 gaps   *)
(* lie at or below v, and not more than q% of them, and one, strictly below.*)
IsPercentile(r, q, v) ==
    /\ Cardinality(NotAbove(r, v)) * 100 > (Len(r) - 1) * q
    /\ (Cardinality(Below(r, v)) - 1) * 100 <= (Len(r) - 1) * q
    /\ \E i, j \in 1..Len(r) : r[i] <= v /\ v <= r[j]

(* m is the mean, rounded down, of r over the non-empty index set S. *)
IsMeanOver(S, r, m) ==
    /\ S # {}
    /\ m * Cardinality(S) <= SumOver(S, r)
    /\ SumOver(S, r) < (m + 1) * Cardinality(S)

CvarComputed == pc \in {"risk_state", "ready", "failed"} /\ engine.stock_cvar # None

(* C3: for every non-empty final-return vector cvar_95 <= var_95 and        *)
(* cvar_99 <= var_99, where var_c is the (100 - c)th percentile of the      *)
(* returns and cvar_c is the mean of all returns at or below var_c.         *)
C3_CvarNotAboveVar ==
    CvarComputed
        => LET r == engine.stock_final_returns
               c == engine.stock_cvar
           IN  /\ IsPercentile(r, 5, c.var_95)
               /\ IsPercentile(r, 1, c.var_99)
               /\ IsMeanOver(NotAbove(r, c.var_95), r, c.cvar_95)
               /\ IsMeanOver(NotAbove(r, c.var_99), r, c.cvar_99)
               /\ c.cvar_95 <= c.var_95
               /\ c.cvar_99 <= c.var_99

(* CVaR computed for unsorted returns with more than one return at or below *)
(* VaR at 95%, and strictly below VaR at both levels.                       *)
C3_Witness ==
    /\ CvarComputed
    /\ \E i \in 1..(Len(engine.stock_final_returns) - 1) :
           engine.stock_final_returns[i] > engine.stock_final_returns[i + 1]
    /\ Cardinality(NotAbove(engine.stock_final_returns, engine.stock_cvar.var_95)) >= 2
    /\ engine.stock_cvar.cvar_95 < engine.stock_cvar.var_95
    /\ engine.stock_cvar.cvar_99 < engine.stock_cvar.var_99

TableComputed ==
    pc \in {"cvar", "risk_state", "ready", "failed"} /\ engine.stock_percentiles # None

(* C4: the rows of the table are the percentiles 1, 5, 10, 25, 50, 75, 90,  *)
(* 95, 99 in that order, and return(p) is non-decreasing as p increases.    *)
C4_TableOrdered ==
    TableComputed
        => LET table == engine.stock_percentiles
           IN  /\ [k \in 1..Len(table) |-> table[k].percentile] =
                      <<1, 5, 10, 25, 50, 75, 90, 95, 99>>
               /\ \A j, k \in 1..Len(table) :
                      j < k => table[j].return <= table[k].return
               /\ \A k \in 1..Len(table) :
                      IsPercentile(engine.stock_final_returns, table[k].percentile,
                                   table[k].return)

(* A table computed from unsorted returns whose rows are not all equal. *)
C4_Witness ==
    /\ TableComputed
    /\ \E i \in 1..(Len(engine.stock_final_returns) - 1) :
           engine.stock_final_returns[i] > engine.stock_final_returns[i + 1]
    /\ engine.stock_percentiles[1].return < engine.stock_percentiles[5].return
    /\ engine.stock_percentiles[5].return < engine.stock_percentiles[9].return

Asked(q) == q.made

(* The rank of target among prices, as a share of 100 x SC, rounded down to *)
(* a multiple of 100.                                                       *)
IsRank(prices, target, rank) ==
    LET count == Cardinality({i \in 1..Len(prices) : prices[i] <= target})
    IN  /\ rank % 100 = 0
        /\ (rank \div 100) * Len(prices) <= count * SC
        /\ count * SC < (rank \div 100 + 1) * Len(prices)

(* C5: the percentile rank is 100 x (number of final prices <= target) /    *)
(* (number of final prices); it is a function of the final prices and the   *)
(* target, lies in [0, 100], is non-decreasing in the target, and is 40 for *)
(* the final prices [90, 95, 100, 105, 110] and the target 95.              *)
C5_PercentileRank ==
    Asked(rank_queries.last)
        => LET q == rank_queries.last
               p == rank_queries.prev
           IN  /\ IsRank(engine.stock_final_prices, q.target, q.rank)
               /\ 0 <= q.rank /\ q.rank <= 100 * SC
               /\ (Asked(p) /\ p.target = q.target) => p.rank = q.rank
               /\ (Asked(p) /\ p.target <= q.target) => p.rank <= q.rank
               /\ (engine.stock_final_prices = <<900000, 950000, 1000000, 1050000, 1100000>>
                       /\ q.target = 950000)
                      => q.rank = 40 * SC

(* The toy ensemble asked for 95 after a query with a lower target and a    *)
(* lower rank.                                                              *)
C5_Witness ==
    /\ Asked(rank_queries.last) /\ Asked(rank_queries.prev)
    /\ engine.stock_final_prices = ToyPrices
    /\ rank_queries.last.target = 950000
    /\ rank_queries.last.rank = 40 * SC
    /\ rank_queries.prev.target < rank_queries.last.target
    /\ rank_queries.prev.rank < rank_queries.last.rank
    /\ rank_queries.prev.rank > 0

-----------------------------------------------------------------------------
(* Properties of calculate_statistics *)

Called == call # NoCall

(* The returns of the w trailing prices of the history. *)
TrailingReturns(w) ==
    LET first == Len(stock_data) - w + 1
    IN  [i \in 1..(w - 1) |->
            DivFix(stock_data[first + i], stock_data[first + i - 1]) - SC]

(* C6: calculate_statistics fails with an error whenever the lookback       *)
(* exceeds the number of price observations, and never returns a            *)
(* volatility computed from a window shorter than the one requested.        *)
C6_FailsWhenWindowExceedsHistory ==
    (Called /\ call.args.historical_window > Len(stock_data))
        => call.error # ""

(* C8: for every lookback w >= 1 that fits in the history, when the         *)
(* trailing returns are all identical the annualized volatility returned is *)
(* exactly 0: no error, no NaN.                                             *)
C8_IdenticalReturnsGiveZeroVolatility ==
    (/\ Called
     /\ call.args.historical_window >= 1
     /\ call.args.historical_window <= Len(stock_data)
     /\ \A i, j \in DOMAIN TrailingReturns(call.args.historical_window) :
            TrailingReturns(call.args.historical_window)[i] =
                TrailingReturns(call.args.historical_window)[j])
        => /\ call.error = ""
           /\ call.result.stock_volatility = 0

-----------------------------------------------------------------------------
(* Properties of calculate_risk_state_score *)

(* C2: the risk_state_score returned is in [0, 100] for every price history *)
(* (flat ones and ones shorter than the rolling windows included), every    *)
(* final-return vector and all VaR/CVaR values.                             *)
C2_ScoreInRange ==
    Called
        => /\ call.error = ""
           /\ Le(0, call.result.risk_state_score)
           /\ Le(call.result.risk_state_score, 100 * SC)

-----------------------------------------------------------------------------
(* Properties of the constructor *)

Constructed == pc # "new"

(* C7: a configuration out of range (here a horizon < 1) is rejected at     *)
(* construction, before any download, random draw or simulation step.       *)
C7_RejectedBeforeAnyWork ==
    (Constructed /\ engine.days_to_simulate < 1)
        => /\ effects = <<>>
           /\ pc # "ready"

-----------------------------------------------------------------------------
(* Properties of the stress ladder's random draws *)

(* The ensemble scenario i yields when it is the first one computed after   *)
(* the seeding, as it is for every scenario of a ladder computed in         *)
(* parallel or in another order.                                            *)
ComputedFirst(i) ==
    Ensemble(CallSimulation(runs.last.result.calls[i].args, SeedState(SEED)))

(* C11: each stress scenario's ensemble is the same whether the scenarios   *)
(* are computed one after the other, in any order, or in parallel: the      *)
(* ensemble of a scenario is the one it yields when no other scenario was   *)
(* computed before it.                                                      *)
C11_ScenarioDrawsAreItsOwn ==
    Completed
        => \A i \in 1..Len(VolMultipliers) :
               runs.last.result.stress_results[VolMultipliers[i]] = ComputedFirst(i)

(* C12: a call of run_monte_carlo leaves the process-wide generator in the  *)
(* state it had before the call.                                            *)
C12_GeneratorStateRestored == [][runs' # runs => rng' = rng]_vars

-----------------------------------------------------------------------------
(* Properties of the simulation's configuration *)

SeedSupplied == call # NoCall

(* C13: the seed a simulation run draws from is the one the caller         *)
(* supplied: a caller who supplied seed s gets the draws that follow s,    *)
(* and 42 is used only when the caller supplied none.                      *)
C13_SeedUsedIsTheCallers ==
    (Completed /\ SeedSupplied)
        => runs.last.result.calls[1].entry = SeedState(call.args.seed)

-----------------------------------------------------------------------------
(* Properties of the drift estimate *)

(* The mean of the trailing daily returns x 252. *)
HistoricalDrift(w) ==
    IF IsNaN(Mean(TrailingReturns(w))) THEN NaN ELSE Mean(TrailingReturns(w)) * 252

(* C14: the statistics step has two drift modes: with a constant supplied   *)
(* (risk-free-proxy mode) the drift is that constant, whatever the price    *)
(* history; with none supplied (historical mode) the drift is the mean of   *)
(* the trailing daily returns x 252.                                        *)
C14_TwoDriftModes ==
    (Called /\ call.args.historical_window \in 1..Len(stock_data))
        => IF call.args.risk_free_rate = NoRate
           THEN call.result.stock_expected_return =
                    HistoricalDrift(call.args.historical_window)
           ELSE call.result.stock_expected_return = call.args.risk_free_rate

-----------------------------------------------------------------------------
(* Properties of the hand-over from the simulation to the analysis *)

(* C15: no non-finite final return or final price is passed into the        *)
(* percentile, VaR/CVaR or risk-state computations: whenever one of these   *)
(* stages has run, the vectors it was given are finite throughout.          *)
C15_NonFiniteNotPassedOn ==
    TableComputed
        => /\ ~HasNaN(engine.stock_final_returns)
           /\ ~HasNaN(engine.stock_final_prices)

-----------------------------------------------------------------------------
(* Properties of VaR and CVaR across confidence levels *)

(* C16: for every non-empty final-return vector, tightening confidence from *)
(* 95% to 99% never makes either figure less negative: var_99 <= var_95 and *)
(* cvar_99 <= cvar_95.                                                      *)
C16_TighterConfidenceDeeperTail ==
    CvarComputed
        => /\ engine.stock_cvar.var_99 <= engine.stock_cvar.var_95
           /\ engine.stock_cvar.cvar_99 <= engine.stock_cvar.cvar_95

(* VaR and CVaR computed for returns where both move strictly into the tail *)
(* and the two tails hold different numbers of returns.                     *)
C16_Witness ==
    /\ CvarComputed
    /\ engine.stock_cvar.var_99 < engine.stock_cvar.var_95
    /\ engine.stock_cvar.cvar_99 < engine.stock_cvar.cvar_95
    /\ Cardinality(NotAbove(engine.stock_final_returns, engine.stock_cvar.var_99))
           < Cardinality(NotAbove(engine.stock_final_returns, engine.stock_cvar.var_95))

-----------------------------------------------------------------------------
(* Properties of the jump overlay *)

(* Two measurements with the same configuration and seed, the first with no *)
(* jumps, the second with jump probability 0.5 and magnitude -0.10.         *)
TwinRuns ==
    /\ TwoRuns
    /\ runs.prev.cfg.jump_prob = 0
    /\ runs.last.cfg.jump_prob = 5000
    /\ runs.last.cfg.jump_magnitude = -1000
    /\ runs.last.cfg = [runs.prev.cfg EXCEPT !.jump_prob = 5000]

(* The uniform draws the run with jumps compares with its jump_prob. *)
JumpDraws ==
    Rand(RngAfter(SeedState(runs.last.cfg.seed), runs.last.cfg.days * runs.last.cfg.n),
         runs.last.cfg.days, runs.last.cfg.n)

JumpFiredOn(p) ==
    \E t \in 1..runs.last.cfg.days : JumpDraws[t][p] < runs.last.cfg.jump_prob

(* Every simulated price of the run with jumps is finite and above 0. *)
PricesPositive ==
    \A t \in 1..runs.last.cfg.days : \A p \in 1..runs.last.cfg.n :
        /\ ~IsNaN(runs.last.result.ensemble.paths[t][p])
        /\ runs.last.result.ensemble.paths[t][p] > 0

(* C17: of two runs with the same configuration and seed that differ only  *)
(* in the jump overlay, the one with jumps has the strictly more negative   *)
(* VaR at 95%.                                                              *)
C17_JumpsDeepenVar95 ==
    TwinRuns => runs.last.result.stock_cvar.var_95 < runs.prev.result.stock_cvar.var_95

(* C17, amended: as long as the prices of the run with jumps stay finite   *)
(* and positive, its VaR at 95% is never above that of the run without     *)
(* jumps, and it is strictly below when a jump fired on every path.        *)
C17_JumpsNeverRaiseVar95 ==
    (TwinRuns /\ PricesPositive)
        => /\ runs.last.result.stock_cvar.var_95 <= runs.prev.result.stock_cvar.var_95
           /\ (\A p \in 1..runs.last.cfg.n : JumpFiredOn(p))
                  => runs.last.result.stock_cvar.var_95
                         < runs.prev.result.stock_cvar.var_95

(* Twin runs of two paths over two days where a jump fired on every path,   *)
(* and twin runs where no jump fired at all.                                *)
C17_Witness ==
    /\ TwinRuns
    /\ PricesPositive
    /\ runs.last.cfg.n = 2
    /\ runs.last.cfg.days = 2
    /\ \A p \in 1..runs.last.cfg.n : JumpFiredOn(p)
    /\ runs.last.result.stock_cvar.var_95 < runs.prev.result.stock_cvar.var_95

-----------------------------------------------------------------------------
(* Properties of a zero-width distribution *)

(* All final returns of the ensemble are equal to v. *)
AllReturnsEqual(v) ==
    \A i \in 1..Len(engine.stock_final_returns) : engine.stock_final_returns[i] = v

(* C18: when all final returns are equal, the percentile table has that     *)
(* return in every row, VaR and CVaR at both confidences equal it, and the  *)
(* risk state is computed, without an error, with tail ratio 1 and          *)
(* distribution width 0.                                                    *)
C18_ZeroWidthDistribution ==
    \A v \in {engine.stock_final_returns[i] : i \in 1..Len(engine.stock_final_returns)} :
        AllReturnsEqual(v)
            => /\ TableComputed => AllRows(engine.stock_percentiles, v)
               /\ CvarComputed
                      => engine.stock_cvar =
                             [var_95 |-> v, cvar_95 |-> v, var_99 |-> v, cvar_99 |-> v]
               /\ pc # "failed"
               /\ pc = "ready"
                      => /\ engine.risk_state.error = ""
                         /\ engine.risk_state.tail_ratio = SC
                         /\ engine.risk_state.distribution_width = 0

(* A risk state computed for several equal final returns of 0, where VaR at *)
(* 99% is 0 and the tail ratio has nothing to divide by.                    *)
C18_Witness ==
    /\ pc = "ready"
    /\ Len(engine.stock_final_returns) >= 2
    /\ AllReturnsEqual(0)
    /\ engine.stock_cvar.var_99 = 0
    /\ engine.risk_state.tail_ratio = SC

-----------------------------------------------------------------------------
(* Properties of the constructor's staging *)

(* The stages in the order of the constructor's statements, and the state   *)
(* of a finished constructor.                                               *)
StageOrder ==
    <<"download", "set_prices", "statistics", "simulate", "percentiles", "cvar",
      "risk_state", "ready">>

Position(stage) == CHOOSE k \in 1..Len(StageOrder) : StageOrder[k] = stage

(* Which stage outputs the object holds: the history (stage 1), the         *)
(* ensemble (stage 4), the percentile table (5), VaR/CVaR (6) and the risk  *)
(* state (7).                                                               *)
OutputOf ==
    [k \in {1, 4, 5, 6, 7} |->
        CASE k = 1 -> engine.stock_data # None
          [] k = 4 -> engine.stock_final_returns # None
          [] k = 5 -> engine.stock_percentiles # None
          [] k = 6 -> engine.stock_cvar # None
          [] k = 7 -> engine.risk_state # None]

(* C19: the constructor runs data acquisition, starting price, statistics,  *)
(* simulation, percentile table, VaR/CVaR and risk state in this order: the *)
(* object holds the output of a stage exactly when the constructor is past  *)
(* it.  When a stage fails, the failure leaves the constructor: no later    *)
(* stage has run (no output of a later stage, no download or draw after the *)
(* failure) and the object is never finished.                               *)
C19_StagesInOrderFailuresPropagate ==
    Constructed
        => /\ (engine.raised # "") <=> (pc = "failed")
           /\ pc # "failed"
                  => \A k \in DOMAIN OutputOf : OutputOf[k] <=> (Position(pc) > k)
           /\ pc = "failed"
                  => /\ ~OutputOf[7]
                     /\ \A j, k \in DOMAIN OutputOf : (j < k /\ OutputOf[k]) => OutputOf[j]
                     /\ ~OutputOf[1] => effects = <<"download">>
                     /\ ~OutputOf[4] => \A i \in 1..Len(effects) : effects[i] # "rand"
           /\ effects # <<>> => effects[1] = "download"

(* A constructor that failed in its last stage, after every other stage had *)
(* run.                                                                     *)
C19_Witness ==
    /\ pc = "failed"
    /\ engine.raised = "IndexError"
    /\ OutputOf[6]
    /\ ~OutputOf[7]

-----------------------------------------------------------------------------
(* Properties of what the stages leave alone *)

(* The vectors and the history are after the step what they were before. *)
EnsembleUnchanged ==
    /\ engine'.stock_final_returns = engine.stock_final_returns
    /\ engine'.stock_final_prices = engine.stock_final_prices

HistoryUnchanged ==
    /\ engine'.stock_data = engine.stock_data
    /\ stock_data' = stock_data

(* C20: no stage changes an input it consumed: calculate_statistics and     *)
(* calculate_risk_state_score leave the price history unchanged,            *)
(* calculate_percentiles and calculate_cvar leave the final-return and      *)
(* final-price vectors unchanged, and run_full_analysis, called any number  *)
(* of times, leaves every field of the engine unchanged.                    *)
C20_InputsLeftUnchanged ==
    [][/\ pc = "statistics" => HistoryUnchanged
       /\ pc \in {"percentiles", "cvar"} => EnsembleUnchanged
       /\ pc = "risk_state"
              => /\ HistoryUnchanged
                 /\ EnsembleUnchanged
                 /\ engine'.stock_cvar = engine.stock_cvar
       /\ pc = "ready" => engine' = engine]_vars

(* An engine built on final returns that are not in ascending order, on     *)
(* which run_full_analysis was called twice.                                *)
C20_Witness ==
    /\ pc = "ready"
    /\ Len(SelectSeq(effects, LAMBDA e : e = "savefig")) >= 2
    /\ \E i \in 1..(Len(engine.stock_final_returns) - 1) :
           engine.stock_final_returns[i] > engine.stock_final_returns[i + 1]

-----------------------------------------------------------------------------
(* Properties of the steps of run_single_simulation *)

Simulated == call # NoCall /\ call.error = ""

Cells == {<<t, p>> : t \in 1..call.args.days, p \in 1..call.args.n}

(* lambda x s^2 + (1 - lambda) x (s x z)^2 *)
EwmaVariance(s, zprev) ==
    MulFix(EWMA_LAMBDA, Sq(s)) + MulFix(SC - EWMA_LAMBDA, Sq(MulFix(s, zprev)))

(* C21: for every path, sigma_t[0] is the base volatility and, for every    *)
(* day t >= 1, sigma_t[t]^2 = lambda x sigma_t[t-1]^2 + (1 - lambda) x      *)
(* (sigma_t[t-1] x z[t-1])^2 (to the last two digits kept); sigma_t[t] is   *)
(* never negative, and it exceeds sigma_t[t-1] only when sigma_t[t-1] > 0   *)
(* and |z[t-1]| > 1, and always then (for |z[t-1]| - 1 above a thousandth,  *)
(* the resolution the volatilities are kept with).                          *)
C21_EwmaRecursion ==
    Simulated
        => LET sig == call.result.locals.sigma_t
               z   == call.result.locals.z
           IN  \A c \in Cells :
                   LET t == c[1]
                       p == c[2]
                   IN  /\ sig[t][p] >= 0
                       /\ t = 1 => sig[t][p] = call.args.sigma
                       /\ t > 1 =>
                              /\ Abs(Sq(sig[t][p]) - EwmaVariance(sig[t - 1][p], z[t - 1][p]))
                                     <= 2
                              /\ sig[t][p] > sig[t - 1][p]
                                     => (sig[t - 1][p] > 0 /\ Abs(z[t - 1][p]) > SC)
                              /\ (sig[t - 1][p] > 0
                                      /\ Abs(z[t - 1][p]) > SC + SC \div 1000)
                                     => sig[t][p] > sig[t - 1][p]

(* A two-day run whose volatility rises on one path after a shock above 1   *)
(* and decays on another after a shock below 1.                             *)
C21_Witness ==
    /\ Simulated
    /\ call.args.days >= 2
    /\ \E p, q \in 1..call.args.n :
           /\ call.result.locals.sigma_t[2][p] > call.result.locals.sigma_t[1][p]
           /\ call.result.locals.sigma_t[2][q] < call.result.locals.sigma_t[1][q]
           /\ call.result.locals.sigma_t[2][q] > 0

(* The uniform draw of a cell, taken after all the shocks were drawn, and    *)
(* whether it is below jump_prob.                                           *)
JumpDraw(t, p) ==
    Rand(RngAfter(call.args.entry, call.args.days * call.args.n),
         call.args.days, call.args.n)[t][p]

JumpFired(t, p) == call.args.jump_prob > 0 /\ JumpDraw(t, p) < call.args.jump_prob

(* drift / 252 + sigma_t / sqrt(252) x z *)
Diffusion(t, p) ==
    call.args.mu \div 252
        + MulFix(DivFix(call.result.locals.sigma_t[t][p], Sqrt252),
                 call.result.locals.z[t][p])

(* C22: for every day and path the daily return is drift / 252 + sigma_t /  *)
(* sqrt(252) x z, plus exactly jump_magnitude when the cell's jump          *)
(* indicator fired and nothing otherwise; with jump_prob = 0 no return is   *)
(* altered and no random number is drawn for jumps.                         *)
C22_DailyReturns ==
    Simulated
        => /\ \A c \in Cells :
                  call.result.locals.daily_returns[c[1]][c[2]] =
                      Diffusion(c[1], c[2])
                          + (IF JumpFired(c[1], c[2]) THEN call.args.jump_magnitude ELSE 0)
           /\ call.args.jump_prob = 0
                  => /\ \A c \in Cells : ~call.result.locals.jump_matrix[c[1]][c[2]]
                     /\ rng = RngAfter(call.args.entry, call.args.days * call.args.n)
           /\ call.args.jump_prob > 0
                  => rng = RngAfter(call.args.entry, 2 * call.args.days * call.args.n)

(* A run of two days and two paths in which a jump fired in some cells and  *)
(* not in others.                                                           *)
C22_Witness ==
    /\ Simulated
    /\ call.args.days = 2
    /\ call.args.n = 2
    /\ call.args.sigma > 0
    /\ \E c, d \in Cells :
           /\ JumpFired(c[1], c[2])
           /\ ~JumpFired(d[1], d[2])
           /\ call.result.locals.z[c[1]][c[2]] # SC
           /\ call.result.locals.z[c[1]][c[2]] # -SC

RECURSIVE GrowthTo(_, _)
(* The product over the days up to t of (1 + daily return) on path p. *)
GrowthTo(t, p) ==
    IF t = 1 THEN SC + call.result.locals.daily_returns[1][p]
    ELSE MulFix(GrowthTo(t - 1, p), SC + call.result.locals.daily_returns[t][p])

(* C23: the path matrix has horizon rows and num_paths columns, with        *)
(* paths[t] = starting price x the product over the days up to t of         *)
(* (1 + daily return); the final prices are its last row, each final return *)
(* is (final price / starting price - 1) x 100, and both vectors have       *)
(* num_paths entries.                                                       *)
C23_PathConstruction ==
    Simulated
        => LET out == call.result.out
               a   == call.args
           IN  /\ Len(out.paths) = a.days
               /\ \A t \in 1..a.days : Len(out.paths[t]) = a.n
               /\ \A c \in Cells :
                      out.paths[c[1]][c[2]] = MulFix(a.stock_price, GrowthTo(c[1], c[2]))
               /\ out.final_prices = out.paths[a.days]
               /\ Len(out.final_prices) = a.n
               /\ Len(out.final_returns) = a.n
               /\ \A p \in 1..a.n :
                      out.final_returns[p] =
                          (DivFix(out.final_prices[p], a.stock_price) - SC) * 100

(* A run of two days and two paths that end at different prices, each       *)
(* other than its second day's return applied to the starting price.        *)
C23_Witness ==
    /\ Simulated
    /\ call.args.days = 2
    /\ call.args.n = 2
    /\ call.result.out.final_prices[1] # call.result.out.final_prices[2]
    /\ \A p \in 1..2 :
           call.result.out.final_prices[p] #
               MulFix(call.args.stock_price, SC + call.result.locals.daily_returns[2][p])

-----------------------------------------------------------------------------
(* Properties of the risk-state sub-scores *)

(* The linear map of [lo, hi] onto [0, 1], 0 below lo and 1 above hi. *)
ClampedMap(x, lo, hi) ==
    IF Le(x, lo) THEN 0
    ELSE IF Le(hi, x) THEN SC
    ELSE DivFix(Sub(x, lo), hi - lo)

InUnitRange(s) == Le(0, s) /\ Le(s, SC)

(* C24: each sub-score is a clamped linear map into [0, 1] (volatility      *)
(* ratio from [0.7, 1.5], tail ratio from [1.1, 1.6], distribution width    *)
(* from [10, 60], jump frequency divided by 0.03), and the composite is the *)
(* unweighted mean of the four sub-scores x 100.                            *)
C24_ClampedSubScores ==
    (Called /\ call.error = "")
        => LET vol_score   == ClampedMap(call.result.vol_ratio, 7000, 15000)
               tail_score  == ClampedMap(call.result.tail_ratio, 11000, 16000)
               jump_score  == ClampedMap(call.result.jump_freq, 0, 300)
               width_score == ClampedMap(call.result.distribution_width, 10 * SC, 60 * SC)
           IN  /\ InUnitRange(vol_score)
               /\ InUnitRange(tail_score)
               /\ InUnitRange(jump_score)
               /\ InUnitRange(width_score)
               /\ call.result.risk_state_score =
                      ((vol_score + tail_score + jump_score + width_score) \div 4) * 100

-----------------------------------------------------------------------------
(* Properties of the paths' independence *)

(* Path q has the same shocks and jump indicators in both runs. *)
SameDraws(q) ==
    \A t \in 1..runs.last.cfg.shape.days :
        /\ runs.prev.cfg.z[t][q] = runs.last.cfg.z[t][q]
        /\ runs.prev.cfg.jump_matrix[t][q] = runs.last.cfg.jump_matrix[t][q]

(* Path q has the same shocks in both runs on the days before t. *)
SameShocksBefore(q, t) ==
    \A u \in 1..(t - 1) : runs.prev.cfg.z[u][q] = runs.last.cfg.z[u][q]

(* C25: a path's volatility sequence, daily returns, prices and final       *)
(* return depend only on that path's own shocks and jump indicators         *)
(* (changing those of one path leaves every other path's values as they     *)
(* were), and a path's volatility on day t depends only on its shocks of    *)
(* the days before t.                                                       *)
C25_PathsIndependent ==
    (TwoRuns /\ runs.prev.cfg.shape = runs.last.cfg.shape)
        => \A q \in 1..runs.last.cfg.shape.n :
               /\ SameDraws(q)
                      => /\ \A t \in 1..runs.last.cfg.shape.days :
                                /\ runs.prev.result.sigma_t[t][q] = runs.last.result.sigma_t[t][q]
                                /\ runs.prev.result.daily_returns[t][q] =
                                       runs.last.result.daily_returns[t][q]
                                /\ runs.prev.result.paths[t][q] = runs.last.result.paths[t][q]
                         /\ runs.prev.result.final_returns[q] = runs.last.result.final_returns[q]
               /\ \A t \in 1..runs.last.cfg.shape.days :
                      SameShocksBefore(q, t)
                          => runs.prev.result.sigma_t[t][q] = runs.last.result.sigma_t[t][q]

(* Two runs in which the volatility and the final return of path 1 changed  *)
(* with its shocks, while path 2 kept its draws.                            *)
C25_Witness ==
    /\ TwoRuns
    /\ runs.last.cfg.shape.days >= 2
    /\ SameDraws(2)
    /\ ~SameDraws(1)
    /\ runs.prev.result.sigma_t[2][1] # runs.last.result.sigma_t[2][1]
    /\ runs.prev.result.final_returns[1] # runs.last.result.final_returns[1]

-----------------------------------------------------------------------------
(* Properties of the ensemble the engine analyses *)

(* The ensemble of the multiplier-1.0 scenario, as the engine holds it      *)
(* among its stress results.                                                *)
BaseScenario == engine.stress_results[10000]

(* C26: the percentile table, the VaR/CVaR figures and the risk state held  *)
(* by the engine are those of the final returns (and final prices) of the   *)
(* multiplier-1.0 scenario, whatever the ensembles of the stressed          *)
(* scenarios are.                                                           *)
C26_AnalysisOfBaseScenario ==
    /\ TableComputed
           => engine.stock_percentiles =
                  CalculatePercentiles(BaseScenario.stock_final_returns,
                                       BaseScenario.stock_final_prices)
    /\ CvarComputed => engine.stock_cvar = CalculateCvar(BaseScenario.stock_final_returns)
    /\ pc = "ready"
           => engine.risk_state =
                  CalculateRiskStateScore(engine.stock_data,
                                          BaseScenario.stock_final_returns,
                                          CalculateCvar(BaseScenario.stock_final_returns))

(* A finished engine whose most stressed scenario has other final returns,  *)
(* another percentile table and another VaR than the base scenario.         *)
C26_Witness ==
    /\ pc = "ready"
    /\ engine.stress_results[15000].stock_final_returns # BaseScenario.stock_final_returns
    /\ CalculatePercentiles(engine.stress_results[15000].stock_final_returns,
                            engine.stress_results[15000].stock_final_prices)
           # engine.stock_percentiles
    /\ CalculateCvar(engine.stress_results[15000].stock_final_returns).var_95
           # engine.stock_cvar.var_95

(* C27: whenever the screener is interrupted by Ctrl+C during the ticker    *)
(* loop, an auto-save in progress included, every successful result         *)
(* accumulated so far is in the output file and the process has exited      *)
(* when the handler is through.                                             *)
Accumulated == {RESULTS[k].ticker : k \in 1..Len(RESULTS)}

Saved == {output_file[k].ticker : k \in 1..Len(output_file)}

C27_InterruptSavesAndExits ==
    [][screener'.interrupts # screener.interrupts
          => screener'.at = "exited" /\ Saved' = Accumulated']_vars

(* C28: for a positive starting price, the price column of the percentile   *)
(* table equals starting price x (1 + return column / 100) at every         *)
(* percentile, and every strike of the strike-placement guide is the        *)
(* table's price at that percentile.                                        *)
C28_StrikesAreTablePrices ==
    (TableComputed /\ engine.stock_price > 0)
        => LET table == engine.stock_percentiles
               guide == StrikeGuide(engine)
           IN  /\ \A k \in 1..Len(table) :
                      table[k].price = StrikePrice(engine.stock_price, table[k].return)
               /\ \A j \in 1..Len(guide) :
                      \E k \in 1..Len(table) :
                          /\ table[k].percentile = guide[j].percentile
                          /\ table[k].price = guide[j].strike_price

(* A table whose percentiles are interpolated between different prices, and *)
(* a guide that shows all nine of them.                                     *)
C28_Witness ==
    /\ TableComputed
    /\ engine.stock_price > 0
    /\ Len(StrikeGuide(engine)) = Len(PERCENTILES)
    /\ \E k \in 1..Len(PERCENTILES) :
           /\ engine.stock_percentiles[k].price \notin {engine.stock_final_prices[i] : i \in 1..Len(engine.stock_final_prices)}
           /\ engine.stock_percentiles[k].price # engine.stock_price

C30_TailRatioAtLeastOne ==
    (pc = "ready" /\ engine.risk_state.error = "")
        => /\ Lt(engine.stock_cvar.var_99, 0) => Le(SC, engine.risk_state.tail_ratio)
           /\ engine.stock_cvar.var_99 = 0 => engine.risk_state.tail_ratio = SC

(* A loss at 99% with a mean beyond it that is strictly deeper, so that the *)
(* ratio is above 1.                                                        *)
C30_Witness ==
    /\ pc = "ready"
    /\ engine.risk_state.error = ""
    /\ Lt(engine.stock_cvar.var_99, 0)
    /\ Lt(engine.stock_cvar.cvar_99, engine.stock_cvar.var_99)
    /\ Lt(SC, engine.risk_state.tail_ratio)

====
